---- MODULE Spec2Model ----
(***************************************************************************)
(* A model of the agent-router library: the three provider stream readers  *)
(* (OpenAI: SSE data lines, Anthropic: typed SSE events, Google: a JSON    *)
(* array of chunks), the router's dispatch with its feature check, and the *)
(* batch manager with its poll loop.                                       *)
(*                                                                         *)
(* SpecStream runs one stream reader over one response body; SpecRouter    *)
(* runs the router and the batch manager over one registry.                *)
(***************************************************************************)
EXTENDS Integers, Sequences, FiniteSets, TLC

VARIABLES
    framing,      \* which reader is under test: "A" openai, "B" anthropic, "C" google
    body,         \* the HTTP response body, as the sequence of wire items the reader will read
    s,            \* the streamReader struct
    events,       \* every event Next has returned so far, in order
    ret,          \* what the latest Next call returned: "none", "event", "complete", "error"
    ctx,          \* the request context of the stream: "live" or "cancelled"
    cancelCalls,  \* how many Next calls were made since the context was cancelled (0, 1, 2)
    providers,    \* Router.providers: the names registered with the router
    managerProviders, \* Manager.providers: the names registered with the batch manager
    policy,       \* Router.config.OnUnsupportedFeature
    last,         \* the Router / Manager call that returned last, and what it returned
    wait,         \* the activation of Manager.Wait: where it is and for which provider
    remote,       \* the batch job as the provider holds it
    waitCtx,      \* the context handed to Manager.Wait: "live" or "cancelled"
    lastFetched,  \* the job the latest successful Manager.Get inside Wait returned
    applied       \* the latest call of a helper function: its name, arguments and result

streamVars == <<framing, body, s, events, ret, ctx, cancelCalls>>
routerVars == <<providers, managerProviders, policy, last, wait, remote, waitCtx, lastFetched>>
vars == <<framing, body, s, events, ret, ctx, cancelCalls,
          providers, managerProviders, policy, last, wait, remote, waitCtx, lastFetched,
          applied>>

\* The longest response body, in wire items.
MaxBody == 3

\* Go's nil, for pointers, interfaces and maps' missing entries.
Nil == [nil |-> TRUE]

(***************************************************************************)
(* encoding/json as the readers use it.  The argument strings the wire     *)
(* items below can build are listed with what json.Unmarshal into an `any` *)
(* gives for them: an object, or an error that leaves the target nil.      *)
(***************************************************************************)
JSONObject(members) == [nil |-> FALSE, members |-> members]

Unmarshal(str) ==
    CASE str = "{}" -> JSONObject({})
      [] OTHER -> Nil

\* types.Usage, and the zero value a CompletionResponse holds when no usage was seen.
Usage(in, out, total) ==
    [InputTokens |-> in, OutputTokens |-> out, TotalTokens |-> total]

ZeroUsage == Usage(0, 0, 0)

\* types.ContentBlock (text and tool_use kinds) and types.ToolCall.
TextBlock(text) ==
    [Type |-> "text", Text |-> text, ToolUseID |-> "", ToolName |-> "", ToolInput |-> Nil]

ToolUseBlock(id, name, input) ==
    [Type |-> "tool_use", Text |-> "", ToolUseID |-> id, ToolName |-> name, ToolInput |-> input]

ZeroBlock ==
    [Type |-> "", Text |-> "", ToolUseID |-> "", ToolName |-> "", ToolInput |-> Nil]

ToolCall(id, name, input) == [ID |-> id, Name |-> name, Input |-> input]

\* types.CompletionResponse without its CreatedAt timestamp.
CompletionResponse(id, provider, model, content, stop, calls, usage) ==
    [ID |-> id, Provider |-> provider, Model |-> model, Content |-> content,
     StopReason |-> stop, ToolCalls |-> calls,
     Usage |-> IF usage = Nil THEN ZeroUsage ELSE usage]

\* types.StreamEvent: the zero value, and one constructor per event type.
ZeroEvent ==
    [Type |-> "", Delta |-> Nil, Index |-> 0, ToolCall |-> Nil, ToolInputDelta |-> "",
     Error |-> Nil, Usage |-> Nil, StopReason |-> "", ResponseID |-> "", Model |-> ""]

StartEvent(id, model) ==
    [ZeroEvent EXCEPT !.Type = "start", !.ResponseID = id, !.Model = model]

ContentDeltaEvent(text, index) ==
    [ZeroEvent EXCEPT !.Type = "content_delta", !.Delta = TextBlock(text), !.Index = index]

ToolCallStartEvent(call) ==
    [ZeroEvent EXCEPT !.Type = "tool_call_start", !.ToolCall = call]

ToolCallDeltaEvent(fragment, index) ==
    [ZeroEvent EXCEPT !.Type = "tool_call_delta", !.ToolInputDelta = fragment, !.Index = index]

ToolCallEndEvent(call) ==
    [ZeroEvent EXCEPT !.Type = "tool_call_end", !.ToolCall = call]

DoneEvent(usage, stop, id) ==
    [ZeroEvent EXCEPT !.Type = "done", !.Usage = usage, !.StopReason = stop, !.ResponseID = id]

ErrorEvent(code) ==
    [ZeroEvent EXCEPT !.Type = "error", !.Error = [nil |-> FALSE, Code |-> code]]

\* What one Next call hands back: the reader after the call, the kind of return
\* ("event": an event and a nil error; "complete": nil, nil; "error": nil and an error;
\* "never": the call does not return) and the event.
Return(st, kind, ev) == [s |-> st, ret |-> kind, ev |-> ev]

(***************************************************************************)
(* Framing A: the OpenAI stream reader.  A body is a sequence of lines,    *)
(* each classified the way Next classifies it after TrimSpace: blank, not  *)
(* a "data: " line, "data: [DONE]", a data line whose payload does not     *)
(* decode, or a data line carrying a StreamChunk.                          *)
(***************************************************************************)
BlankLine == [kind |-> "blank"]

CommentLine == [kind |-> "other"]

DoneLine == [kind |-> "done"]

BadDataLine == [kind |-> "data", json |-> FALSE]

DataLine(chunk) == [kind |-> "data", json |-> TRUE, chunk |-> chunk]

\* openai.StreamChunk with at most one choice; every chunk carries the id and the model.
StreamChunkA(choices, usage) ==
    [ID |-> "r1", Model |-> "m1", Choices |-> choices, Usage |-> usage]

StreamChoiceA(content, toolCalls, finish) ==
    [Delta |-> [Content |-> content, ToolCalls |-> toolCalls], FinishReason |-> finish]

\* openai.ToolCall in a delta; Index is a pointer: <<>> when omitted, <<i>> when set.
DeltaToolCallA(index, id, name, arguments) ==
    [Index |-> index, ID |-> id, Function |-> [Name |-> name, Arguments |-> arguments]]

LinesA ==
    { BlankLine, CommentLine, BadDataLine, DoneLine,
      DataLine(StreamChunkA(<<StreamChoiceA("Hi", <<>>, "")>>, Nil)),
      DataLine(StreamChunkA(<<StreamChoiceA("", <<DeltaToolCallA(<<0>>, "c0", "f", "")>>, "")>>, Nil)),
      DataLine(StreamChunkA(<<StreamChoiceA("", <<DeltaToolCallA(<<1>>, "c1", "g", "{}")>>, "")>>, Nil)),
      DataLine(StreamChunkA(<<StreamChoiceA("", <<DeltaToolCallA(<<0>>, "", "", "{")>>, "")>>, Nil)),
      DataLine(StreamChunkA(<<StreamChoiceA("", <<DeltaToolCallA(<<>>, "", "", "}")>>, "")>>, Nil)),
      DataLine(StreamChunkA(<<StreamChoiceA("", <<>>, "tool_calls")>>, Nil)),
      DataLine(StreamChunkA(<<>>, Usage(1, 2, 3))) }

\* openai.Transformer.transformStopReason
transformStopReasonA(reason) ==
    CASE reason = "stop" -> "end"
      [] reason = "length" -> "max_tokens"
      [] reason = "tool_calls" -> "tool_use"
      [] reason = "content_filter" -> "content_filter"
      [] OTHER -> "end"

\* newStreamReader (openai): reader is the index of the next line to read.
newStreamReaderA ==
    [reader |-> 1, done |-> FALSE, response |-> Nil, id |-> "", model |-> "",
     content |-> "", toolCalls |-> <<>>, toolInputs |-> <<>>, usage |-> Nil,
     stopReason |-> ""]

\* The loop over delta.ToolCalls in processChunk: the first entry that carries an id
\* or arguments returns its event, and the entries after it are never looked at.
RECURSIVE toolCallLoopA(_, _, _)
toolCallLoopA(st, calls, i) ==
    IF i > Len(calls) THEN [s |-> st, ev |-> Nil]
    ELSE LET tc == calls[i]
             idx == IF tc.Index # <<>> THEN tc.Index[1] ELSE 0
         IN  IF tc.ID # ""
             THEN [s |-> [st EXCEPT
                            !.toolCalls = (idx :> ToolCall(tc.ID, tc.Function.Name, Nil)) @@ @,
                            !.toolInputs = (idx :> "") @@ @],
                   ev |-> ToolCallStartEvent(ToolCall(tc.ID, tc.Function.Name, Nil))]
             ELSE IF tc.Function.Arguments # ""
             THEN [s |-> IF idx \in DOMAIN st.toolInputs
                         THEN [st EXCEPT !.toolInputs[idx] = @ \o tc.Function.Arguments]
                         ELSE st,
                   ev |-> ToolCallDeltaEvent(tc.Function.Arguments, idx)]
             ELSE toolCallLoopA(st, calls, i + 1)

\* streamReader.processChunk (openai): the reader after the chunk and the event, Nil if none.
processChunkA(st, chunk) ==
    LET st1 == [st EXCEPT !.id = IF @ = "" THEN chunk.ID ELSE @,
                          !.model = IF @ = "" THEN chunk.Model ELSE @,
                          !.usage = IF chunk.Usage # Nil THEN chunk.Usage ELSE @]
    IN  IF Len(chunk.Choices) = 0 THEN [s |-> st1, ev |-> Nil]
        ELSE LET choice == chunk.Choices[1]
                 delta == choice.Delta
                 st2 == IF choice.FinishReason # ""
                        THEN [st1 EXCEPT !.stopReason = transformStopReasonA(choice.FinishReason)]
                        ELSE st1
             IN  IF delta.Content # ""
                 THEN [s |-> [st2 EXCEPT !.content = @ \o delta.Content],
                       ev |-> ContentDeltaEvent(delta.Content, 0)]
                 ELSE toolCallLoopA(st2, delta.ToolCalls, 1)

\* streamReader.buildResponse (openai).  Go ranges over the toolCalls map in an order
\* it randomises, so the order is an input: a sequence listing the map's keys.
buildResponseA(st, order) ==
    LET input(idx) == IF idx \in DOMAIN st.toolInputs
                      THEN Unmarshal(st.toolInputs[idx])
                      ELSE st.toolCalls[idx].Input
        call(idx) == ToolCall(st.toolCalls[idx].ID, st.toolCalls[idx].Name, input(idx))
        text == IF Len(st.content) > 0 THEN <<TextBlock(st.content)>> ELSE <<>>
        uses == [i \in 1..Len(order) |->
                    ToolUseBlock(call(order[i]).ID, call(order[i]).Name, call(order[i]).Input)]
        calls == [i \in 1..Len(order) |-> call(order[i])]
    IN  [st EXCEPT
           !.toolCalls = [idx \in DOMAIN st.toolCalls |-> call(idx)],
           !.response = CompletionResponse(st.id, "openai", st.model, text \o uses,
                                           st.stopReason, calls, st.usage)]

\* The orders in which a range over a map with these keys can visit them.
MapOrders(keys) ==
    { o \in [1..Cardinality(keys) -> keys] : \A i, j \in DOMAIN o : i # j => o[i] # o[j] }

\* streamReader.Next (openai) after the done check: read lines until one returns.
\* Once the context is cancelled the body's Read fails, and so does ReadString.
RECURSIVE readLoopA(_, _)
readLoopA(st, order) ==
    IF ctx = "cancelled" THEN Return(st, "error", Nil)
    ELSE IF st.reader > Len(body)
    THEN Return(buildResponseA([st EXCEPT !.done = TRUE], order), "complete", Nil)
    ELSE LET line == body[st.reader]
             st1 == [st EXCEPT !.reader = @ + 1]
         IN  CASE line.kind = "blank" -> readLoopA(st1, order)
               [] line.kind = "other" -> readLoopA(st1, order)
               [] line.kind = "done" ->
                    Return(buildResponseA([st1 EXCEPT !.done = TRUE], order), "event",
                           DoneEvent(st1.usage, st1.stopReason, st1.id))
               [] line.kind = "data" /\ ~line.json -> readLoopA(st1, order)
               [] OTHER ->
                    LET r == processChunkA(st1, line.chunk)
                    IN  IF r.ev # Nil THEN Return(r.s, "event", r.ev)
                        ELSE readLoopA(r.s, order)

(***************************************************************************)
(* Framing B: the Anthropic stream reader.  A body is a sequence of blank  *)
(* lines, lines that are not "event: " lines, and SSE records: an          *)
(* "event: <type>" line with the line after it, which is its "data: "      *)
(* line (decoding or not) or, when data is "none", not a data line at all. *)
(* The provider always sends the data line, so LinesB holds no record with *)
(* data "none"; Next handles one all the same.                             *)
(***************************************************************************)
ZeroPayloadB ==
    [Index |-> 0, ContentBlock |-> [Type |-> "", ID |-> "", Name |-> ""],
     Delta |-> [Text |-> "", PartialJSON |-> "", StopReason |-> ""],
     Usage |-> [InputTokens |-> 0, OutputTokens |-> 0],
     Message |-> [ID |-> "", Model |-> ""], Error |-> [Message |-> ""]]

EventB(type, payload) == [kind |-> "event", event |-> type, data |-> "json", payload |-> payload]

BadEventB(type) == [kind |-> "event", event |-> type, data |-> "bad", payload |-> ZeroPayloadB]

LinesB ==
    { BlankLine, CommentLine,
      EventB("message_start",
             [ZeroPayloadB EXCEPT !.Message = [ID |-> "r1", Model |-> "m1"],
                                  !.Usage = [InputTokens |-> 5, OutputTokens |-> 0]]),
      EventB("content_block_start",
             [ZeroPayloadB EXCEPT !.Index = 0, !.ContentBlock.Type = "text"]),
      EventB("content_block_delta",
             [ZeroPayloadB EXCEPT !.Index = 0, !.Delta.Text = "Hi"]),
      EventB("content_block_start",
             [ZeroPayloadB EXCEPT !.Index = 1,
                                  !.ContentBlock = [Type |-> "tool_use", ID |-> "c0", Name |-> "f"]]),
      EventB("content_block_delta",
             [ZeroPayloadB EXCEPT !.Index = 1, !.Delta.PartialJSON = "{}"]),
      EventB("content_block_stop", [ZeroPayloadB EXCEPT !.Index = 0]),
      EventB("content_block_stop", [ZeroPayloadB EXCEPT !.Index = 1]),
      EventB("message_delta",
             [ZeroPayloadB EXCEPT !.Delta.StopReason = "tool_use",
                                  !.Usage = [InputTokens |-> 0, OutputTokens |-> 7]]),
      EventB("message_stop", ZeroPayloadB),
      EventB("error", [ZeroPayloadB EXCEPT !.Error.Message = "overloaded"]),
      BadEventB("error") }

\* anthropic.Transformer.transformStopReason
transformStopReasonB(reason) ==
    CASE reason = "end_turn" -> "end"
      [] reason = "max_tokens" -> "max_tokens"
      [] reason = "tool_use" -> "tool_use"
      [] reason = "stop_sequence" -> "stop_sequence"
      [] OTHER -> "end"

\* newStreamReader (anthropic)
newStreamReaderB ==
    [reader |-> 1, done |-> FALSE, response |-> Nil, id |-> "", model |-> "",
     contentBlocks |-> <<>>, currentBlock |-> 0, toolCalls |-> <<>>, usage |-> Nil,
     stopReason |-> ""]

\* "for len(s.contentBlocks) <= event.Index { append(zero block) }"
RECURSIVE growBlocksB(_, _)
growBlocksB(blocks, index) ==
    IF Len(blocks) <= index THEN growBlocksB(Append(blocks, ZeroBlock), index) ELSE blocks

\* streamReader.processEvent (anthropic): the reader after the event, the event (Nil if
\* none) and the done flag.  Slice index i is element i + 1 here.
processEventB(st, eventType, data, ev) ==
    LET none == [s |-> st, ev |-> Nil, done |-> FALSE]
        ok == data = "json"
    IN  CASE eventType = "message_start" /\ ok ->
               [s |-> [st EXCEPT !.id = ev.Message.ID, !.model = ev.Message.Model],
                ev |-> StartEvent(ev.Message.ID, ev.Message.Model), done |-> FALSE]
          [] eventType = "content_block_start" /\ ok ->
               LET grown == growBlocksB(st.contentBlocks, ev.Index)
                   st1 == [st EXCEPT !.currentBlock = ev.Index]
               IN  IF ev.ContentBlock.Type = "tool_use"
                   THEN [s |-> [st1 EXCEPT !.contentBlocks =
                                   [grown EXCEPT ![ev.Index + 1] =
                                       ToolUseBlock(ev.ContentBlock.ID, ev.ContentBlock.Name, Nil)]],
                         ev |-> ToolCallStartEvent(
                                    ToolCall(ev.ContentBlock.ID, ev.ContentBlock.Name, Nil)),
                         done |-> FALSE]
                   ELSE [s |-> [st1 EXCEPT !.contentBlocks =
                                   [grown EXCEPT ![ev.Index + 1] = TextBlock("")]],
                         ev |-> Nil, done |-> FALSE]
          [] eventType = "content_block_delta" /\ ok ->
               IF ev.Delta.Text # ""
               THEN [s |-> IF ev.Index < Len(st.contentBlocks)
                           THEN [st EXCEPT !.contentBlocks[ev.Index + 1].Text = @ \o ev.Delta.Text]
                           ELSE st,
                     ev |-> ContentDeltaEvent(ev.Delta.Text, ev.Index), done |-> FALSE]
               ELSE IF ev.Delta.PartialJSON # ""
               THEN [s |-> st, ev |-> ToolCallDeltaEvent(ev.Delta.PartialJSON, ev.Index),
                     done |-> FALSE]
               ELSE none
          [] eventType = "content_block_stop" /\ ok ->
               IF ev.Index < Len(st.contentBlocks)
                  /\ st.contentBlocks[ev.Index + 1].Type = "tool_use"
               THEN LET b == st.contentBlocks[ev.Index + 1]
                        tc == ToolCall(b.ToolUseID, b.ToolName, b.ToolInput)
                    IN  [s |-> [st EXCEPT !.toolCalls = Append(@, tc)],
                         ev |-> ToolCallEndEvent(tc), done |-> FALSE]
               ELSE none
          [] eventType = "message_delta" /\ ok ->
               [s |-> [st EXCEPT !.stopReason = transformStopReasonB(ev.Delta.StopReason),
                                 !.usage = IF ev.Usage.OutputTokens > 0
                                           THEN Usage(0, ev.Usage.OutputTokens, 0)
                                           ELSE @],
                ev |-> Nil, done |-> FALSE]
          [] eventType = "message_stop" ->
               [s |-> st, ev |-> DoneEvent(st.usage, st.stopReason, st.id), done |-> TRUE]
          [] eventType = "error" /\ ok ->
               [s |-> st, ev |-> ErrorEvent("server_error"), done |-> TRUE]
          [] OTHER -> none

\* buildResponse (anthropic) that returns without assembling the response.
buildResponseB_Unbuilt(st) == st

\* streamReader.buildResponse (anthropic)
buildResponseB(st) ==
    [st EXCEPT !.response =
        CompletionResponse(st.id, "anthropic", st.model, st.contentBlocks,
                           st.stopReason, st.toolCalls, st.usage)]

\* streamReader.Next (anthropic) after the done check.  An event line whose next line
\* is not a data line is dropped together with that line.
RECURSIVE readLoopB(_)
readLoopB(st) ==
    IF ctx = "cancelled" THEN Return(st, "error", Nil)
    ELSE IF st.reader > Len(body)
    THEN Return(buildResponseB([st EXCEPT !.done = TRUE]), "complete", Nil)
    ELSE LET line == body[st.reader]
             st1 == [st EXCEPT !.reader = @ + 1]
         IN  CASE line.kind = "blank" -> readLoopB(st1)
               [] line.kind = "other" -> readLoopB(st1)
               [] line.kind = "event" /\ line.data = "none" ->
                    readLoopB([st EXCEPT !.reader = @ + 2])
               [] OTHER ->
                    LET r == processEventB(st1, line.event, line.data, line.payload)
                        st2 == IF r.done THEN buildResponseB([r.s EXCEPT !.done = TRUE])
                               ELSE r.s
                    IN  IF r.ev # Nil THEN Return(st2, "event", r.ev)
                        ELSE readLoopB(st2)

(***************************************************************************)
(* Framing C: the Google stream reader.  A body is empty (no bytes), or    *)
(* the array's opening bracket followed by its elements; the closing       *)
(* bracket, or the end of a truncated body, is the end of the sequence.    *)
(* An element decodes into a StreamChunk or is valid JSON of another       *)
(* shape, which Decode rejects after consuming it, or is not valid JSON,   *)
(* which Decode rejects without consuming it.                              *)
(***************************************************************************)
OpenArray == [kind |-> "open"]

BadElementC == [kind |-> "element", json |-> FALSE]

MalformedElementC == [kind |-> "malformed", json |-> FALSE]

ElementC(candidates, usage) ==
    [kind |-> "element", json |-> TRUE,
     chunk |-> [Candidates |-> candidates, UsageMetadata |-> usage]]

CandidateC(parts, finish) ==
    [Content |-> [nil |-> FALSE, Parts |-> parts], FinishReason |-> finish]

NoContentCandidateC(finish) == [Content |-> Nil, FinishReason |-> finish]

TextPartC(text) == [Text |-> text, FunctionCall |-> Nil]

CallPartC(name, args) ==
    [Text |-> "", FunctionCall |-> [nil |-> FALSE, Name |-> name, Args |-> args]]

ElementsC ==
    { BadElementC,
      MalformedElementC,
      ElementC(<<CandidateC(<<TextPartC("Hi")>>, "")>>, Nil),
      ElementC(<<CandidateC(<<CallPartC("f", JSONObject({}))>>, "")>>, Nil),
      ElementC(<<CandidateC(<<TextPartC("Hi"), CallPartC("g", JSONObject({}))>>, "")>>, Nil),
      ElementC(<<NoContentCandidateC("MAX_TOKENS")>>, Usage(1, 2, 3)) }

\* transformStopReason (google) whose default case hands the reason through.
transformStopReasonC_PassThrough(reason) ==
    CASE reason = "STOP" -> "end"
      [] reason = "MAX_TOKENS" -> "max_tokens"
      [] reason = "SAFETY" -> "content_filter"
      [] reason = "RECITATION" -> "content_filter"
      [] OTHER -> reason

\* google.Transformer.transformStopReason
transformStopReasonC(reason) ==
    CASE reason = "STOP" -> "end"
      [] reason = "MAX_TOKENS" -> "max_tokens"
      [] reason = "SAFETY" -> "content_filter"
      [] reason = "RECITATION" -> "content_filter"
      [] reason = "OTHER" -> "end"
      [] OTHER -> "end"

\* newStreamReader (google): model is the request's model, decoder the index of the
\* next item to decode.
newStreamReaderC ==
    [decoder |-> 1, model |-> "m1", done |-> FALSE, response |-> Nil,
     arrayStarted |-> FALSE, started |-> FALSE, content |-> <<>>, toolCalls |-> <<>>,
     usage |-> Nil, stopReason |-> ""]

\* The loop over candidate.Content.Parts in processChunk: the first part that carries
\* text or a function call returns its event.
RECURSIVE partLoopC(_, _, _)
partLoopC(st, parts, i) ==
    IF i > Len(parts) THEN [s |-> st, ev |-> Nil]
    ELSE LET part == parts[i]
             n == Len(st.content)
         IN  IF part.Text # ""
             THEN [s |-> IF n = 0 \/ st.content[n].Type # "text"
                         THEN [st EXCEPT !.content = Append(@, TextBlock(part.Text))]
                         ELSE [st EXCEPT !.content[n].Text = @ \o part.Text],
                   ev |-> ContentDeltaEvent(part.Text, 0)]
             ELSE IF part.FunctionCall # Nil
             THEN LET tc == ToolCall("", part.FunctionCall.Name, part.FunctionCall.Args)
                  IN  [s |-> [st EXCEPT
                                !.toolCalls = Append(@, tc),
                                !.content = Append(@, ToolUseBlock("", part.FunctionCall.Name,
                                                                   part.FunctionCall.Args))],
                       ev |-> ToolCallStartEvent(tc)]
             ELSE partLoopC(st, parts, i + 1)

\* streamReader.processChunk (google)
processChunkC(st, chunk) ==
    IF Len(chunk.Candidates) = 0 THEN [s |-> st, ev |-> Nil]
    ELSE LET candidate == chunk.Candidates[1]
             st1 == IF candidate.FinishReason # ""
                    THEN [st EXCEPT !.stopReason = transformStopReasonC(candidate.FinishReason)]
                    ELSE st
             st2 == IF chunk.UsageMetadata # Nil
                    THEN [st1 EXCEPT !.usage = chunk.UsageMetadata]
                    ELSE st1
         IN  IF candidate.Content = Nil THEN [s |-> st2, ev |-> Nil]
             ELSE partLoopC(st2, candidate.Content.Parts, 1)

\* streamReader.buildResponse (google)
buildResponseC(st) ==
    [st EXCEPT !.response =
        CompletionResponse("", "google", st.model, st.content, st.stopReason,
                           st.toolCalls, st.usage)]

\* "for s.decoder.More() { Decode ... }" and the "array finished" return after it.
\* More reports false at the closing bracket, at the end of the body and on a failed
\* read alike.  Decode of bytes that are not JSON returns its error with the decoder
\* where it was, More then sees the same bytes and the loop continues without end.
RECURSIVE decodeLoopC(_)
decodeLoopC(st) ==
    IF ctx = "cancelled" \/ st.decoder > Len(body)
    THEN LET fin == buildResponseC([st EXCEPT !.done = TRUE])
         IN  Return(fin, "event", DoneEvent(fin.usage, fin.stopReason, ""))
    ELSE LET el == body[st.decoder]
             st1 == [st EXCEPT !.decoder = @ + 1]
         IN  IF el.kind = "malformed" THEN Return(st, "never", Nil)
             ELSE IF ~el.json THEN decodeLoopC(st1)
             ELSE LET r == processChunkC(st1, el.chunk)
                  IN  IF r.ev # Nil THEN Return(r.s, "event", r.ev)
                      ELSE decodeLoopC(r.s)

\* streamReader.Next (google) after the done check.
nextC(st) ==
    IF ~st.started
    THEN Return([st EXCEPT !.started = TRUE], "event", StartEvent("", st.model))
    ELSE IF ~st.arrayStarted
    THEN IF ctx = "cancelled" THEN Return(st, "error", Nil)
         ELSE IF st.decoder > Len(body)
         THEN LET fin == buildResponseC([st EXCEPT !.done = TRUE])
              IN  Return(fin, "event", DoneEvent(fin.usage, fin.stopReason, ""))
         ELSE decodeLoopC([st EXCEPT !.decoder = @ + 1,
                                     !.arrayStarted = (body[st.decoder].kind = "open")])
    ELSE decodeLoopC(st)

(***************************************************************************)
(* The non-streaming side: what each provider's Transformer makes of the   *)
(* response body that Complete decodes.                                    *)
(***************************************************************************)
\* openai.ChatCompletionResponse with its one choice, and openai.ToolCall in a message.
ChatCompletionResponse(id, model, content, toolCalls, finish, usage) ==
    [nil |-> FALSE, ID |-> id, Model |-> model,
     Choices |-> <<[Message |-> [Content |-> content, ToolCalls |-> toolCalls],
                    FinishReason |-> finish]>>,
     Usage |-> usage]

MessageToolCallA(id, name, arguments) ==
    [ID |-> id, Function |-> [Name |-> name, Arguments |-> arguments]]

\* openai.Transformer.transformContent for a string content
transformContentA(msg) ==
    (IF msg.Content # "" THEN <<TextBlock(msg.Content)>> ELSE <<>>)
    \o [i \in 1..Len(msg.ToolCalls) |->
           ToolUseBlock(msg.ToolCalls[i].ID, msg.ToolCalls[i].Function.Name,
                        Unmarshal(msg.ToolCalls[i].Function.Arguments))]

\* openai.Transformer.extractToolCalls
extractToolCallsA(msg) ==
    [i \in 1..Len(msg.ToolCalls) |->
        ToolCall(msg.ToolCalls[i].ID, msg.ToolCalls[i].Function.Name,
                 Unmarshal(msg.ToolCalls[i].Function.Arguments))]

\* openai.Transformer.TransformResponse
TransformResponseA(resp) ==
    IF resp = Nil \/ Len(resp.Choices) = 0 THEN Nil
    ELSE LET choice == resp.Choices[1]
         IN  CompletionResponse(resp.ID, "openai", resp.Model, transformContentA(choice.Message),
                                transformStopReasonA(choice.FinishReason),
                                extractToolCallsA(choice.Message), resp.Usage)

\* anthropic.MessagesResponse and anthropic.ContentBlock
MessagesResponse(id, model, content, stop, inTokens, outTokens) ==
    [nil |-> FALSE, ID |-> id, Model |-> model, Content |-> content, StopReason |-> stop,
     Usage |-> [InputTokens |-> inTokens, OutputTokens |-> outTokens]]

ContentBlockB(type, text, id, name, input) ==
    [Type |-> type, Text |-> text, ID |-> id, Name |-> name, Input |-> input]

IsKnownBlockB(block) == block.Type \in {"text", "tool_use"}

IsToolUseB(block) == block.Type = "tool_use"

\* anthropic.Transformer.transformResponseContent
transformResponseContentB(blocks) ==
    LET kept == SelectSeq(blocks, IsKnownBlockB)
    IN  [i \in 1..Len(kept) |->
            IF kept[i].Type = "text" THEN TextBlock(kept[i].Text)
            ELSE ToolUseBlock(kept[i].ID, kept[i].Name, kept[i].Input)]

\* anthropic.Transformer.extractToolCalls
extractToolCallsB(blocks) ==
    LET kept == SelectSeq(blocks, IsToolUseB)
    IN  [i \in 1..Len(kept) |-> ToolCall(kept[i].ID, kept[i].Name, kept[i].Input)]

\* anthropic.Transformer.TransformResponse
TransformResponseB(resp) ==
    IF resp = Nil THEN Nil
    ELSE CompletionResponse(resp.ID, "anthropic", resp.Model,
                            transformResponseContentB(resp.Content),
                            transformStopReasonB(resp.StopReason),
                            extractToolCallsB(resp.Content),
                            Usage(resp.Usage.InputTokens, resp.Usage.OutputTokens,
                                  resp.Usage.InputTokens + resp.Usage.OutputTokens))

\* google.GenerateContentResponse with its one candidate
GenerateContentResponse(parts, finish, usage) ==
    [nil |-> FALSE, Candidates |-> <<CandidateC(parts, finish)>>, UsageMetadata |-> usage]

\* google.Transformer.transformResponseContent: a part gives its text block, then its
\* tool_use block.
RECURSIVE transformResponseContentC(_, _)
transformResponseContentC(parts, i) ==
    IF i > Len(parts) THEN <<>>
    ELSE (IF parts[i].Text # "" THEN <<TextBlock(parts[i].Text)>> ELSE <<>>)
         \o (IF parts[i].FunctionCall # Nil
             THEN <<ToolUseBlock("", parts[i].FunctionCall.Name, parts[i].FunctionCall.Args)>>
             ELSE <<>>)
         \o transformResponseContentC(parts, i + 1)

\* google.Transformer.extractToolCalls
RECURSIVE extractToolCallsC(_, _)
extractToolCallsC(parts, i) ==
    IF i > Len(parts) THEN <<>>
    ELSE (IF parts[i].FunctionCall # Nil
          THEN <<ToolCall("", parts[i].FunctionCall.Name, parts[i].FunctionCall.Args)>>
          ELSE <<>>)
         \o extractToolCallsC(parts, i + 1)

\* google.Transformer.TransformResponse: neither the id nor the model is set.
TransformResponseC(resp) ==
    IF resp = Nil \/ Len(resp.Candidates) = 0 THEN Nil
    ELSE LET candidate == resp.Candidates[1]
             content == IF candidate.Content = Nil THEN <<>>
                        ELSE transformResponseContentC(candidate.Content.Parts, 1)
             calls == IF candidate.Content = Nil THEN <<>>
                      ELSE extractToolCallsC(candidate.Content.Parts, 1)
         IN  CompletionResponse("", "google", "", content,
                                transformStopReasonC(candidate.FinishReason), calls,
                                resp.UsageMetadata)

\* The tail of Client.Complete (google): "result.Model = req.Model" on a non-nil result.
completeResultC(resp, model) ==
    LET result == TransformResponseC(resp)
    IN  IF result # Nil THEN [result EXCEPT !.Model = model] ELSE result

(***************************************************************************)
(* The router and the batch manager.  New applies the options, which fill  *)
(* both registries; the calls after that look a provider up by name, check *)
(* the request against the provider's features and delegate.  The provider *)
(* behind a name is the HTTP client of that service: a delegated call      *)
(* issues a request, and succeeds or fails as the service decides.         *)
(***************************************************************************)
ProviderNames == {"openai", "anthropic", "google"}

PolicyValues == {"error", "warn", "ignore"}

\* Client.SupportsFeature of the three adapters.
SupportsFeature(p, feature) ==
    CASE p = "openai" ->
           feature \in {"streaming", "structured_output", "tools", "vision", "batch", "json_mode"}
      [] p = "anthropic" ->
           feature \in {"streaming", "structured_output", "tools", "vision", "batch"}
      [] OTHER ->
           feature \in {"streaming", "structured_output", "tools", "vision", "json_mode", "batch"}

\* types.CompletionRequest, as far as the router reads it.
ResponseFormat(type) == [nil |-> FALSE, Type |-> type]

Message(blockTypes) == [Content |-> blockTypes]

CompletionRequests ==
    [Provider : ProviderNames,
     ResponseFormat : {Nil, ResponseFormat("text"), ResponseFormat("json"),
                       ResponseFormat("json_schema")},
     Tools : {<<>>, <<"get_weather">>},
     Messages : {<<Message(<<"text">>)>>,
                 <<Message(<<"text">>), Message(<<"text", "image">>)>>}]

\* The errors a call returns are named by their code; "" is the nil error.
NoError == ""

\* What the service can answer to a delegated call.
ProviderOutcomes == {NoError, "server_error"}

\* handleUnsupportedFeature whose PolicyError case falls through to the warning.
handleUnsupportedFeature_Warns(feature) ==
    CASE policy = "error" -> NoError
      [] policy = "warn" -> NoError
      [] policy = "ignore" -> NoError
      [] OTHER -> "unsupported_feature"

\* Router.handleUnsupportedFeature
handleUnsupportedFeature(feature) ==
    CASE policy = "error" -> "unsupported_feature"
      [] policy = "warn" -> NoError
      [] policy = "ignore" -> NoError
      [] OTHER -> "unsupported_feature"

\* The vision check of checkFeatureSupport: the error of the first message that holds
\* an image the provider cannot take.  An image the provider can take ends the scan of
\* its message only.
RECURSIVE visionCheck(_, _, _)
visionCheck(p, messages, i) ==
    IF i > Len(messages) THEN NoError
    ELSE IF (\E k \in DOMAIN messages[i].Content : messages[i].Content[k] = "image")
            /\ ~SupportsFeature(p, "vision")
    THEN handleUnsupportedFeature("vision")
    ELSE visionCheck(p, messages, i + 1)

\* Router.checkFeatureSupport: each check that finds a missing feature returns what
\* handleUnsupportedFeature gives, nil included.
checkFeatureSupport(p, req) ==
    IF req.ResponseFormat # Nil /\ req.ResponseFormat.Type = "json_schema"
       /\ ~SupportsFeature(p, "structured_output")
    THEN handleUnsupportedFeature("structured_output")
    ELSE IF req.ResponseFormat # Nil /\ req.ResponseFormat.Type = "json"
            /\ ~SupportsFeature(p, "json_mode")
    THEN handleUnsupportedFeature("json_mode")
    ELSE IF Len(req.Tools) > 0 /\ ~SupportsFeature(p, "tools")
    THEN handleUnsupportedFeature("tools")
    ELSE visionCheck(p, req.Messages, 1)

\* Router.getProvider: the error of the lookup.
getProvider(name) ==
    IF name \in providers THEN NoError ELSE "provider_unavailable"

\* A lookup that ignores the ok of the map read.
managerLookup_IgnoresOk(name) == NoError

\* The lookup "p, ok := m.providers[providerName]" that opens every Manager method.
managerLookup(name) ==
    IF name \in managerProviders THEN NoError ELSE "provider_unavailable"

\* A call that has returned: its operation, the provider named, the request (Nil for a
\* batch call), the error, the job (Nil unless the call returns one) and whether the
\* call reached the provider, that is issued an HTTP request.
Call(op, name, req, err, job, invoked) ==
    [op |-> op, provider |-> name, req |-> req, err |-> err, job |-> job,
     invoked |-> invoked]

\* Router.Complete: what the call returns when the provider, once reached, answers
\* `outcome`.
Complete(req, outcome) ==
    IF getProvider(req.Provider) # NoError
    THEN Call("Complete", req.Provider, req, getProvider(req.Provider), Nil, FALSE)
    ELSE IF checkFeatureSupport(req.Provider, req) # NoError
    THEN Call("Complete", req.Provider, req, checkFeatureSupport(req.Provider, req), Nil, FALSE)
    ELSE Call("Complete", req.Provider, req, outcome, Nil, TRUE)

\* Router.Stream
Stream(req, outcome) ==
    IF getProvider(req.Provider) # NoError
    THEN Call("Stream", req.Provider, req, getProvider(req.Provider), Nil, FALSE)
    ELSE IF ~SupportsFeature(req.Provider, "streaming")
    THEN Call("Stream", req.Provider, req, "unsupported_feature", Nil, FALSE)
    ELSE IF checkFeatureSupport(req.Provider, req) # NoError
    THEN Call("Stream", req.Provider, req, checkFeatureSupport(req.Provider, req), Nil, FALSE)
    ELSE Call("Stream", req.Provider, req, outcome, Nil, TRUE)

\* provider.BatchStatus and batch.Status share their eight values.
BatchStatuses ==
    {"pending", "validating", "in_progress", "finalizing",
     "completed", "failed", "cancelled", "expired"}

\* IsDone that takes finalizing for a final status.
IsDone_Finalizing(status) ==
    status \in {"finalizing", "completed", "failed", "cancelled", "expired"}

\* IsDone that leaves expired out of the final statuses.
IsDone_NotExpired(status) == status \in {"completed", "failed", "cancelled"}

\* Status.IsDone
IsDone(status) == status \in {"completed", "failed", "cancelled", "expired"}

\* provider.BatchJob as the provider reports it, and batch.convertJob of it.
BatchJob(status) == [ID |-> "b1", Status |-> status]

convertJob(j) == [nil |-> FALSE, ID |-> j.ID, Status |-> j.Status]

\* Manager.Create, Get, GetResults, Cancel and List: the lookup, then the provider's
\* method; Create and Get return the converted job.
managerCall(op, name, outcome) ==
    IF managerLookup(name) # NoError
    THEN Call(op, name, Nil, managerLookup(name), Nil, FALSE)
    ELSE Call(op, name, Nil, outcome,
              IF outcome = NoError /\ op \in {"Create", "Get"} THEN convertJob(remote) ELSE Nil,
              TRUE)

Returns(call) ==
    /\ wait.pc = "idle"
    /\ last' = call
    /\ UNCHANGED <<providers, managerProviders, policy, wait, remote, waitCtx, lastFetched>>
    /\ UNCHANGED streamVars
    /\ UNCHANGED applied

RouterComplete ==
    \E req \in CompletionRequests, outcome \in ProviderOutcomes : Returns(Complete(req, outcome))

RouterStream ==
    \E req \in CompletionRequests, outcome \in ProviderOutcomes : Returns(Stream(req, outcome))

ManagerCreate ==
    \E name \in ProviderNames, outcome \in ProviderOutcomes :
        Returns(managerCall("Create", name, outcome))

ManagerGet ==
    \E name \in ProviderNames, outcome \in ProviderOutcomes :
        Returns(managerCall("Get", name, outcome))

ManagerGetResults ==
    \E name \in ProviderNames, outcome \in ProviderOutcomes :
        Returns(managerCall("GetResults", name, outcome))

ManagerCancel ==
    \E name \in ProviderNames, outcome \in ProviderOutcomes :
        Returns(managerCall("Cancel", name, outcome))

ManagerList ==
    \E name \in ProviderNames, outcome \in ProviderOutcomes :
        Returns(managerCall("List", name, outcome))

\* Manager.RegisterProvider, which the manager Batch() returns offers to every holder
\* of the router: "m.providers[p.Name()] = p" with a client of the caller's making.
ManagerRegisterProvider ==
    /\ \E name \in ProviderNames : managerProviders' = managerProviders \cup {name}
    /\ UNCHANGED <<providers, policy, last, wait, remote, waitCtx, lastFetched>>
    /\ UNCHANGED streamVars
    /\ UNCHANGED applied

(***************************************************************************)
(* Manager.Wait.  The call creates its ticker (the poll interval is        *)
(* positive: NewTicker panics otherwise) and sits in the select; each pass *)
(* takes the context's Done channel or the ticker's tick, whichever is     *)
(* ready, and either when both are.  The job at the provider changes       *)
(* status on its own while Wait polls.                                     *)
(***************************************************************************)
WaitCall ==
    /\ wait.pc = "idle"
    /\ \E name \in ProviderNames : wait' = [pc |-> "select", provider |-> name]
    /\ last' = Nil
    /\ UNCHANGED <<providers, managerProviders, policy, remote, waitCtx, lastFetched>>
    /\ UNCHANGED streamVars
    /\ UNCHANGED applied

\* "case <-ctx.Done(): return nil, ctx.Err()"
WaitCancelled ==
    /\ wait.pc = "select"
    /\ waitCtx = "cancelled"
    /\ wait' = [wait EXCEPT !.pc = "returned"]
    /\ last' = Call("Wait", wait.provider, Nil, "context_canceled", Nil, FALSE)
    /\ UNCHANGED <<providers, managerProviders, policy, remote, waitCtx, lastFetched>>
    /\ UNCHANGED streamVars
    /\ UNCHANGED applied

\* "case <-ticker.C:" with the Get it runs: Wait returns the Get's error, returns the
\* job when its status is done, and goes round the loop otherwise.
WaitTickGetting(outcome) ==
    /\ wait.pc = "select"
    /\ LET got == managerCall("Get", wait.provider, outcome)
       IN  IF got.err # NoError
           THEN /\ wait' = [wait EXCEPT !.pc = "returned"]
                /\ last' = Call("Wait", wait.provider, Nil, got.err, Nil, got.invoked)
                /\ UNCHANGED lastFetched
           ELSE /\ lastFetched' = got.job
                /\ IF IsDone(got.job.Status)
                   THEN /\ wait' = [wait EXCEPT !.pc = "returned"]
                        /\ last' = Call("Wait", wait.provider, Nil, NoError, got.job, TRUE)
                   ELSE UNCHANGED <<wait, last>>
    /\ UNCHANGED <<providers, managerProviders, policy, remote, waitCtx>>
    /\ UNCHANGED streamVars
    /\ UNCHANGED applied

WaitTick == \E outcome \in ProviderOutcomes : WaitTickGetting(outcome)

\* The caller cancels the context it gave to Wait, before the call or during it.
CancelWait ==
    /\ wait.pc # "returned"
    /\ waitCtx = "live"
    /\ waitCtx' = "cancelled"
    /\ UNCHANGED <<providers, managerProviders, policy, last, wait, remote, lastFetched>>
    /\ UNCHANGED streamVars
    /\ UNCHANGED applied

\* The provider moves the job to another status while Wait polls.
ProviderProgress ==
    /\ wait.pc = "select"
    /\ \E status \in BatchStatuses \ {remote.Status} : remote' = BatchJob(status)
    /\ UNCHANGED <<providers, managerProviders, policy, last, wait, waitCtx, lastFetched>>
    /\ UNCHANGED streamVars
    /\ UNCHANGED applied

\* No stream is open.
StreamIdle ==
    /\ framing = "A"
    /\ body = <<>>
    /\ s = newStreamReaderA
    /\ events = <<>>
    /\ ret = "none"
    /\ ctx = "live"
    /\ cancelCalls = 0

\* router.New with its options: WithOpenAI, WithAnthropic and WithGoogle each put
\* their client in both registries, New refuses an empty registry, and the policy is
\* PolicyError unless WithUnsupportedFeaturePolicy sets another.
RouterInit ==
    /\ providers \in (SUBSET ProviderNames) \ {{}}
    /\ managerProviders = providers
    /\ policy \in PolicyValues
    /\ last = Nil
    /\ wait = [pc |-> "idle", provider |-> ""]
    /\ remote = BatchJob("pending")
    /\ waitCtx = "live"
    /\ lastFetched = Nil
    /\ StreamIdle
    /\ applied = Nil

RouterNext ==
    \/ RouterComplete
    \/ RouterStream
    \/ ManagerCreate
    \/ ManagerGet
    \/ ManagerGetResults
    \/ ManagerCancel
    \/ ManagerList
    \/ ManagerRegisterProvider
    \/ WaitCall
    \/ WaitCancelled
    \/ WaitTick
    \/ CancelWait
    \/ ProviderProgress

SpecRouter == RouterInit /\ [][RouterNext]_vars

\* The router and the manager with the scheduling Wait's loop runs under: the ticker
\* keeps firing, so a Wait in its select takes the tick case again and again and the
\* service answers the Get of a tick sooner or later; and a select whose ctx.Done()
\* is closed does not sit there forever.  A tick whose Get brings back the status
\* already seen changes nothing, and nothing is required of it.
SpecWait ==
    /\ RouterInit /\ [][RouterNext]_vars
    /\ WF_vars(WaitTickGetting(NoError))
    /\ WF_vars(WaitCancelled)

\* No router is built.
RouterIdle ==
    /\ providers = {}
    /\ managerProviders = {}
    /\ policy = "error"
    /\ last = Nil
    /\ wait = [pc |-> "idle", provider |-> ""]
    /\ remote = BatchJob("pending")
    /\ waitCtx = "live"
    /\ lastFetched = Nil

(***************************************************************************)
(* One stream: a reader over one body, advanced by Next calls; the caller  *)
(* may cancel the request context while the stream is being delivered.     *)
(***************************************************************************)
SeqsUpTo(S, n) == UNION { [1..k -> S] : k \in 0..n }

Bodies(f) ==
    CASE f = "A" -> SeqsUpTo(LinesA, MaxBody)
      [] f = "B" -> SeqsUpTo(LinesB, MaxBody)
      [] OTHER -> {<<>>} \cup { <<OpenArray>> \o e : e \in SeqsUpTo(ElementsC, MaxBody) }

\* Provider.Stream's last statement: newStreamReader(resp.Body, ...)
newStreamReader(f) ==
    CASE f = "A" -> newStreamReaderA
      [] f = "B" -> newStreamReaderB
      [] OTHER -> newStreamReaderC

\* Next (openai) and Next (anthropic) without the "if s.done" return.
nextA_NoDoneCheck(st, order) == readLoopA(st, order)

nextB_NoDoneCheck(st) == readLoopB(st)

\* streamReader.Next of the three readers, from the done check on.
nextA(st, order) == IF st.done THEN Return(st, "complete", Nil) ELSE readLoopA(st, order)

nextB(st) == IF st.done THEN Return(st, "complete", Nil) ELSE readLoopB(st)

nextCfromDone(st) == IF st.done THEN Return(st, "complete", Nil) ELSE nextC(st)

\* streamReader.Response
Response == s.response

\* The caller's side of one Next call: keep what it returned.  A caller whose call
\* has not returned makes no further call.
Returned(r) ==
    /\ ret # "never"
    /\ s' = r.s
    /\ ret' = r.ret
    /\ events' = IF r.ev # Nil THEN Append(events, r.ev) ELSE events
    /\ cancelCalls' = IF ctx = "cancelled" THEN (IF cancelCalls < 2 THEN cancelCalls + 1 ELSE 2)
                      ELSE 0
    /\ UNCHANGED <<framing, body, ctx>>
    /\ UNCHANGED routerVars
    /\ UNCHANGED applied

CallNextA ==
    /\ framing = "A"
    /\ \E order \in MapOrders(DOMAIN s.toolCalls) : Returned(nextA(s, order))

CallNextB ==
    /\ framing = "B"
    /\ Returned(nextB(s))

CallNextC ==
    /\ framing = "C"
    /\ Returned(nextCfromDone(s))

\* The caller cancels the context of a stream that has not completed.
Cancel ==
    /\ ctx = "live"
    /\ ~s.done
    /\ ctx' = "cancelled"
    /\ UNCHANGED <<framing, body, s, events, ret, cancelCalls>>
    /\ UNCHANGED routerVars
    /\ UNCHANGED applied

StreamInit ==
    /\ framing \in {"A", "B", "C"}
    /\ body \in Bodies(framing)
    /\ s = newStreamReader(framing)
    /\ events = <<>>
    /\ ret = "none"
    /\ ctx = "live"
    /\ cancelCalls = 0
    /\ RouterIdle
    /\ applied = Nil

StreamNext == CallNextA \/ CallNextB \/ CallNextC \/ Cancel

SpecStream == StreamInit /\ [][StreamNext]_vars

(***************************************************************************)
(* Properties of the stream readers.                                       *)
(***************************************************************************)
LastEvent == events[Len(events)]

EventReturned(type) == \E i \in DOMAIN events : events[i].Type = type

DoneCount == Cardinality({ i \in DOMAIN events : events[i].Type = "done" })

\* Next has returned a Done event or an Error event, and no event since.
Terminated == Len(events) > 0 /\ LastEvent.Type \in {"done", "error"}

\* The body ends with its provider's natural termination.
NaturalEnd ==
    CASE framing = "A" -> Len(body) > 0 /\ body[Len(body)].kind = "done"
      [] framing = "B" -> Len(body) > 0 /\ body[Len(body)].kind = "event"
                          /\ body[Len(body)].event = "message_stop"
      [] OTHER -> TRUE

\* C1: for each of the three readers, the first event Next returns that is not an
\* Error event is a Start event.
C1_StartIsFirstNonErrorEvent ==
    \A i \in DOMAIN events :
        (events[i].Type # "error" /\ \A j \in 1..(i - 1) : events[j].Type = "error")
            => events[i].Type = "start"

\* C2: once Next has returned a Done event or an Error event, a later call to Next
\* returns stream-complete (nil, nil): it adds no event and returns no error, however
\* many calls follow.
C2_CompleteAfterTerminalEvent ==
    [][Terminated => (events' = events /\ (ret' # ret => ret' = "complete"))]_vars

\* C2 witness: a Next call after the Done or Error event has returned stream-complete.
C2_Witness == Terminated /\ ret = "complete" /\ Len(body) > Len(events)

\* C3 as stated: a body ending with its provider's natural termination, read to the
\* end, gives exactly one Done event, and the Done is the last event.
C3_ExactlyOneDoneLast ==
    (NaturalEnd /\ ctx = "live" /\ ret = "complete")
        => (DoneCount = 1 /\ LastEvent.Type = "done")

\* C3 amended: for a body ending with its provider's natural termination and delivered
\* without cancellation, Next never returns a second Done event nor any event after a
\* Done; read to the end, the events end with the one Done event, or, when the reader
\* has returned an Error event, with that Error event and hold no Done event.
C3_OneDoneLastUnlessError ==
    (NaturalEnd /\ ctx = "live")
        => /\ DoneCount <= 1
           /\ EventReturned("done") => LastEvent.Type = "done"
           /\ ret = "complete"
                => /\ Len(events) > 0
                   /\ \/ LastEvent.Type = "done" /\ ~EventReturned("error")
                      \/ LastEvent.Type = "error" /\ DoneCount = 0

\* C3 witness: a body with lines after its first terminator, read to the end, whose
\* events end with the Done event.
C3_Witness ==
    /\ NaturalEnd /\ ctx = "live" /\ ret = "complete"
    /\ framing = "A" /\ Len(body) > 1 /\ body[1].kind = "done"
    /\ DoneCount = 1 /\ LastEvent.Type = "done"

\* C6: after the context is cancelled mid-delivery, the Next call in flight returns
\* an error and Response() is then the partial accumulation, not nil; the Next call
\* after it returns stream-complete.
C6_CancelOutcome ==
    /\ cancelCalls = 1 => (ret = "error" /\ Response # Nil)
    /\ cancelCalls = 2 => ret = "complete"

\* C7: Response() is nil in every state before Next has returned a Done event, an
\* Error event or stream-complete, and is a response in every state after.
C7_ResponseNilUntilComplete ==
    (Response # Nil) <=> (Terminated \/ ret = "complete")

\* C7 witness: the state after an Error event that followed other events, where
\* Response() is the accumulation.
C7_Witness ==
    /\ Len(events) > 1 /\ LastEvent.Type = "error"
    /\ Response # Nil /\ Response.ID = "r1"

(***************************************************************************)
(* The logical message of a body: the response body the provider's         *)
(* non-streaming endpoint gives for the message that the stream delivers   *)
(* in pieces.  A fold over the body assembles it and tells whether the     *)
(* body is a well-formed delivery of one message.                          *)
(***************************************************************************)
\* Framing A: text deltas concatenate; a delta tool call with an id opens the call at
\* its index, with the arguments it carries, and one without appends its arguments to
\* the call at its index; the finish reason and the usage are the last ones sent.
RECURSIVE MessageFoldA(_, _)
MessageFoldA(acc, i) ==
    IF i > Len(body) THEN acc
    ELSE LET line == body[i]
             bad == [acc EXCEPT !.ok = FALSE]
         IN  IF acc.ended THEN bad
             ELSE IF line.kind \in {"blank", "other"} THEN MessageFoldA(acc, i + 1)
             ELSE IF line.kind = "done" THEN MessageFoldA([acc EXCEPT !.ended = TRUE], i + 1)
             ELSE IF ~line.json THEN bad
             ELSE LET a1 == [acc EXCEPT !.id = line.chunk.ID, !.model = line.chunk.Model,
                                        !.usage = IF line.chunk.Usage # Nil
                                                  THEN line.chunk.Usage ELSE @]
                  IN  IF Len(line.chunk.Choices) = 0 THEN MessageFoldA(a1, i + 1)
                      ELSE LET choice == line.chunk.Choices[1]
                               a2 == [a1 EXCEPT !.content = @ \o choice.Delta.Content,
                                                !.finish = IF choice.FinishReason # ""
                                                           THEN choice.FinishReason ELSE @]
                               tcs == choice.Delta.ToolCalls
                           IN  IF Len(tcs) = 0 THEN MessageFoldA(a2, i + 1)
                               ELSE IF Len(tcs) > 1 \/ tcs[1].Index = <<>> THEN bad
                               ELSE IF tcs[1].ID # ""
                               THEN IF tcs[1].Index[1] # Len(a2.calls) THEN bad
                                    ELSE MessageFoldA(
                                           [a2 EXCEPT !.calls = Append(@,
                                               MessageToolCallA(tcs[1].ID, tcs[1].Function.Name,
                                                                tcs[1].Function.Arguments))],
                                           i + 1)
                               ELSE IF tcs[1].Index[1] >= Len(a2.calls) THEN bad
                               ELSE MessageFoldA(
                                      [a2 EXCEPT !.calls[tcs[1].Index[1] + 1].Function.Arguments =
                                                     @ \o tcs[1].Function.Arguments],
                                      i + 1)

MessageA ==
    MessageFoldA([ok |-> TRUE, ended |-> FALSE, id |-> "", model |-> "", content |-> "",
                  calls |-> <<>>, finish |-> "", usage |-> Nil], 1)

\* Framing B: message_start opens the message (early: an event came before it), content
\* blocks open in index order and take the deltas of their type, message_delta gives
\* the stop reason and the output tokens, message_stop closes the message.
RECURSIVE MessageFoldB(_, _)
MessageFoldB(acc0, i) ==
    IF i > Len(body) THEN acc0
    ELSE LET line == body[i]
             ev == line.payload
             acc == IF line.kind = "event" /\ line.event # "message_start" /\ ~acc0.started
                    THEN [acc0 EXCEPT !.early = TRUE] ELSE acc0
             bad == [acc EXCEPT !.ok = FALSE]
         IN  IF acc.ended THEN bad
             ELSE IF line.kind \in {"blank", "other"} THEN MessageFoldB(acc, i + 1)
             ELSE IF line.data # "json" THEN bad
             ELSE IF line.event = "message_start"
             THEN IF acc.started THEN bad
                  ELSE MessageFoldB([acc EXCEPT !.started = TRUE, !.id = ev.Message.ID,
                                                !.model = ev.Message.Model,
                                                !.inTokens = ev.Usage.InputTokens], i + 1)
             ELSE IF line.event = "content_block_start"
             THEN IF ev.Index # Len(acc.blocks) THEN bad
                  ELSE MessageFoldB(
                         [acc EXCEPT !.blocks = Append(@,
                             [Type |-> ev.ContentBlock.Type, Text |-> "",
                              ID |-> ev.ContentBlock.ID, Name |-> ev.ContentBlock.Name,
                              Json |-> ""])], i + 1)
             ELSE IF line.event = "content_block_delta"
             THEN IF ev.Index >= Len(acc.blocks) THEN bad
                  ELSE IF acc.blocks[ev.Index + 1].Type = "text" /\ ev.Delta.Text # ""
                  THEN MessageFoldB([acc EXCEPT !.blocks[ev.Index + 1].Text = @ \o ev.Delta.Text],
                                    i + 1)
                  ELSE IF acc.blocks[ev.Index + 1].Type = "tool_use" /\ ev.Delta.PartialJSON # ""
                  THEN MessageFoldB(
                         [acc EXCEPT !.blocks[ev.Index + 1].Json = @ \o ev.Delta.PartialJSON],
                         i + 1)
                  ELSE bad
             ELSE IF line.event = "content_block_stop"
             THEN IF ev.Index >= Len(acc.blocks) THEN bad ELSE MessageFoldB(acc, i + 1)
             ELSE IF line.event = "message_delta"
             THEN MessageFoldB([acc EXCEPT !.stop = ev.Delta.StopReason,
                                           !.outTokens = ev.Usage.OutputTokens], i + 1)
             ELSE IF line.event = "message_stop"
             THEN MessageFoldB([acc EXCEPT !.ended = TRUE], i + 1)
             ELSE bad

MessageB ==
    MessageFoldB([ok |-> TRUE, early |-> FALSE, started |-> FALSE, ended |-> FALSE,
                  id |-> "", model |-> "",
                  blocks |-> <<>>, stop |-> "", inTokens |-> 0, outTokens |-> 0], 1)

\* Framing C: the parts of the elements follow one another, a text part continuing the
\* text part before it; the finish reason and the usage are the last ones sent.
RECURSIVE JoinPartsC(_, _, _)
JoinPartsC(parts, more, i) ==
    IF i > Len(more) THEN parts
    ELSE LET n == Len(parts)
         IN  IF n > 0 /\ parts[n].FunctionCall = Nil /\ more[i].FunctionCall = Nil
             THEN JoinPartsC([parts EXCEPT ![n].Text = @ \o more[i].Text], more, i + 1)
             ELSE JoinPartsC(Append(parts, more[i]), more, i + 1)

RECURSIVE MessageFoldC(_, _)
MessageFoldC(acc, i) ==
    IF i > Len(body) THEN acc
    ELSE LET el == body[i]
         IN  IF el.kind = "open" THEN MessageFoldC([acc EXCEPT !.opened = TRUE], i + 1)
             ELSE IF ~el.json \/ Len(el.chunk.Candidates) = 0 THEN [acc EXCEPT !.ok = FALSE]
             ELSE LET candidate == el.chunk.Candidates[1]
                      a1 == [acc EXCEPT !.finish = IF candidate.FinishReason # ""
                                                   THEN candidate.FinishReason ELSE @,
                                        !.usage = IF el.chunk.UsageMetadata # Nil
                                                  THEN el.chunk.UsageMetadata ELSE @]
                  IN  IF candidate.Content = Nil THEN MessageFoldC(a1, i + 1)
                      ELSE MessageFoldC(
                             [a1 EXCEPT !.parts = JoinPartsC(@, candidate.Content.Parts, 1)],
                             i + 1)

MessageC ==
    MessageFoldC([ok |-> TRUE, opened |-> FALSE, parts |-> <<>>, finish |-> "",
                  usage |-> Nil], 1)

\* The pieces of the body come in the order of a delivery: no piece the provider
\* cannot send, none for a tool call or a block that is not open, none after the end.
OrderlyDelivery ==
    CASE framing = "A" -> MessageA.ok
      [] framing = "B" -> MessageB.ok
      [] OTHER -> MessageC.ok

\* The body delivers one whole message.
WellFormedMessage ==
    CASE framing = "A" -> MessageA.ok /\ MessageA.ended /\ MessageA.finish # ""
      [] framing = "B" -> MessageB.ok /\ MessageB.started /\ ~MessageB.early
                          /\ MessageB.ended /\ MessageB.stop # ""
      [] OTHER -> MessageC.ok /\ MessageC.opened /\ MessageC.finish # ""

\* What the same provider's non-streaming path returns for the message.
NonStreamingResponse ==
    CASE framing = "A" ->
           TransformResponseA(
               ChatCompletionResponse(MessageA.id, MessageA.model, MessageA.content,
                                      MessageA.calls, MessageA.finish, MessageA.usage))
      [] framing = "B" ->
           TransformResponseB(
               MessagesResponse(MessageB.id, MessageB.model,
                   [k \in 1..Len(MessageB.blocks) |->
                       ContentBlockB(MessageB.blocks[k].Type, MessageB.blocks[k].Text,
                                     MessageB.blocks[k].ID, MessageB.blocks[k].Name,
                                     IF MessageB.blocks[k].Type = "tool_use"
                                     THEN Unmarshal(MessageB.blocks[k].Json) ELSE Nil)],
                   MessageB.stop, MessageB.inTokens, MessageB.outTokens))
      [] OTHER ->
           completeResultC(GenerateContentResponse(MessageC.parts, MessageC.finish,
                                                   MessageC.usage), "m1")

\* C4: after the stream has terminated, Response() equals what the provider's
\* non-streaming transformer produces for the same logical message: content blocks,
\* tool calls and inputs, stop reason, usage, id and model.
C4_ResponseEqualsNonStreaming ==
    (s.done /\ ctx = "live" /\ WellFormedMessage) => Response = NonStreamingResponse

\* The fragments of the ToolCallDelta events with this index, concatenated in order.
RECURSIVE Fragments(_, _)
Fragments(index, i) ==
    IF i > Len(events) THEN ""
    ELSE (IF events[i].Type = "tool_call_delta" /\ events[i].Index = index
          THEN events[i].ToolInputDelta ELSE "")
         \o Fragments(index, i + 1)

\* The tool calls that Response() holds, by the index their deltas carry: for Framing A
\* the key of the call in the reader's map, for Framing B the content block's index.
StreamedToolCalls ==
    CASE framing = "A" ->
           UNION { { [index |-> idx, Input |-> Response.ToolCalls[k].Input] :
                         k \in { n \in DOMAIN Response.ToolCalls :
                                    Response.ToolCalls[n].ID = s.toolCalls[idx].ID } } :
                   idx \in DOMAIN s.toolCalls }
      [] framing = "B" ->
           { [index |-> k - 1, Input |-> Response.Content[k].ToolInput] :
                 k \in { n \in DOMAIN Response.Content : Response.Content[n].Type = "tool_use" } }
      [] OTHER -> {}

\* C5: for every tool call with streamed partial-JSON arguments, the fragments of its
\* ToolCallDelta events, concatenated in order and parsed as JSON, equal the tool
\* call's Input in Response().
C5_FragmentsParseToInput ==
    (Response # Nil /\ ctx = "live" /\ OrderlyDelivery)
        => \A tc \in StreamedToolCalls :
               Fragments(tc.index, 1) # "" => Unmarshal(Fragments(tc.index, 1)) = tc.Input

(***************************************************************************)
(* Properties of the router and the batch manager.                         *)
(***************************************************************************)
\* The features a request requires.
RequiredFeatures(req) ==
    (IF req.ResponseFormat # Nil /\ req.ResponseFormat.Type = "json_schema"
     THEN {"structured_output"} ELSE {})
    \cup (IF req.ResponseFormat # Nil /\ req.ResponseFormat.Type = "json"
          THEN {"json_mode"} ELSE {})
    \cup (IF Len(req.Tools) > 0 THEN {"tools"} ELSE {})
    \cup (IF \E m \in DOMAIN req.Messages :
                \E k \in DOMAIN req.Messages[m].Content : req.Messages[m].Content[k] = "image"
          THEN {"vision"} ELSE {})

\* The features the three adapters declare, read off their SupportsFeature switches.
DeclaredFeatures(p) ==
    IF p = "anthropic"
    THEN {"streaming", "structured_output", "tools", "vision", "batch"}
    ELSE {"streaming", "structured_output", "tools", "vision", "batch", "json_mode"}

\* C8: with the policy error, a Complete or Stream whose request requires a feature
\* the resolved provider does not support returns unsupported_feature and never
\* invokes the provider.
C8_UnsupportedFeatureRejected ==
    (last # Nil /\ last.op \in {"Complete", "Stream"} /\ policy = "error"
     /\ last.provider \in providers
     /\ ~(RequiredFeatures(last.req) \subseteq DeclaredFeatures(last.provider)))
        => (last.err = "unsupported_feature" /\ ~last.invoked)

\* C8 witness: a Stream of a json-format request to the provider without json mode
\* has returned unsupported_feature.
C8_Witness ==
    /\ last # Nil /\ last.op = "Stream" /\ policy = "error"
    /\ last.provider = "anthropic" /\ last.provider \in providers
    /\ last.req.ResponseFormat = ResponseFormat("json")
    /\ last.err = "unsupported_feature" /\ ~last.invoked

\* C9 as stated: for a provider name not registered at construction, Complete, Stream,
\* Create, Get, GetResults, Cancel, List and Wait return provider_unavailable and
\* invoke no provider.
C9_UnregisteredUnavailable ==
    (last # Nil /\ last.provider \notin providers)
        => (last.err = "provider_unavailable" /\ ~last.invoked)

\* A Wait for a name not registered at construction has returned provider_unavailable.
C9_Witness ==
    /\ last # Nil /\ last.op = "Wait" /\ last.provider \notin providers
    /\ last.err = "provider_unavailable" /\ ~last.invoked

\* C10: Wait returns a job without error only when the job's status is completed,
\* failed, cancelled or expired, and the job is the snapshot of the latest fetch.
C10_WaitReturnsFinalSnapshot ==
    (last # Nil /\ last.op = "Wait" /\ last.err = NoError)
        => /\ last.job # Nil
           /\ last.job.Status \in {"completed", "failed", "cancelled", "expired"}
           /\ last.job = lastFetched

\* C10 witness: a Wait has returned an expired job without error.
C10_Witness ==
    /\ last # Nil /\ last.op = "Wait" /\ last.err = NoError
    /\ last.job # Nil /\ last.job.Status = "expired"

\* C11: when the caller's cancellation fires while Wait polls, Wait returns the
\* cancellation error together with the last fetched job snapshot.
C11_CancelReturnsLastSnapshot ==
    (last # Nil /\ last.op = "Wait" /\ last.err = "context_canceled")
        => (waitCtx = "cancelled" /\ last.job = lastFetched)

(***************************************************************************)
(* The functions without state: batch result and status conversion, error  *)
(* mapping, request and schema translation.  SpecCalls applies each of     *)
(* them to arguments drawn from small sets and keeps the call in           *)
(* `applied`; a behaviour holds one call.                                  *)
(***************************************************************************)
Applied(fn, in, out) ==
    /\ applied = Nil
    /\ applied' = [fn |-> fn, in |-> in, out |-> out]
    /\ UNCHANGED streamVars
    /\ UNCHANGED routerVars

\* The longest batch output, in result lines.
MaxLines == 2

\* provider.BatchResult and batch.Result; the error is named by its code.
BatchResult(customID, response, err) ==
    [CustomID |-> customID, Response |-> response, Error |-> err]

\* batch.convertResults
convertResults(results) ==
    [i \in 1..Len(results) |->
        BatchResult(results[i].CustomID, results[i].Response, results[i].Error)]

\* A line of a JSONL output that does not decode.
BadResultLine == [json |-> FALSE]

\* openai.BatchOutputLine: Response and Error are pointers.
BatchOutputLine(customID, response, err) ==
    [json |-> TRUE, CustomID |-> customID, Response |-> response, Error |-> err]

BatchResponseData(b) == [nil |-> FALSE, Body |-> b]

APIError(message) == [nil |-> FALSE, Message |-> message]

OutputLinesA ==
    { BadResultLine,
      BatchOutputLine("q1", BatchResponseData(
          ChatCompletionResponse("r1", "m1", "Hi", <<>>, "stop", Nil)), Nil),
      BatchOutputLine("q2", Nil, APIError(<<"bad">>)),
      BatchOutputLine("q3", BatchResponseData(
          [ChatCompletionResponse("r1", "m1", "", <<>>, "", Nil) EXCEPT !.Choices = <<>>]), Nil),
      BatchOutputLine("q4", Nil, Nil) }

\* The loop of Client.GetBatchResults (openai) over the lines of the output file.
RECURSIVE getBatchResultsA(_, _)
getBatchResultsA(lines, i) ==
    IF i > Len(lines) THEN <<>>
    ELSE LET line == lines[i]
         IN  IF ~line.json THEN getBatchResultsA(lines, i + 1)
             ELSE <<BatchResult(line.CustomID,
                                IF line.Error = Nil /\ line.Response # Nil
                                THEN TransformResponseA(line.Response.Body) ELSE Nil,
                                IF line.Error # Nil THEN "server_error" ELSE NoError)>>
                  \o getBatchResultsA(lines, i + 1)

\* anthropic.BatchResultItem with its BatchItemResult
BatchResultItem(customID, type, message, err) ==
    [json |-> TRUE, CustomID |-> customID,
     Result |-> [Type |-> type, Message |-> message, Error |-> err]]

ResultItemsB ==
    { BadResultLine,
      BatchResultItem("q1", "succeeded",
                      MessagesResponse("r1", "m1", <<>>, "end_turn", 1, 2), Nil),
      BatchResultItem("q2", "errored", Nil, APIError(<<"bad">>)),
      BatchResultItem("q3", "expired", Nil, Nil),
      BatchResultItem("q4", "canceled", Nil, Nil),
      BatchResultItem("q5", "succeeded", Nil, Nil) }

\* The loop of Client.GetBatchResults (anthropic) over the lines of the results.
RECURSIVE getBatchResultsB(_, _)
getBatchResultsB(lines, i) ==
    IF i > Len(lines) THEN <<>>
    ELSE LET item == lines[i]
         IN  IF ~item.json THEN getBatchResultsB(lines, i + 1)
             ELSE LET succeeded == item.Result.Type = "succeeded" /\ item.Result.Message # Nil
                  IN  <<BatchResult(item.CustomID,
                                    IF succeeded THEN TransformResponseB(item.Result.Message)
                                    ELSE Nil,
                                    IF ~succeeded /\ item.Result.Error # Nil
                                    THEN "server_error" ELSE NoError)>>
                      \o getBatchResultsB(lines, i + 1)

\* google.InlinedResponse
InlinedResponse(key, response, err) ==
    [json |-> TRUE, Key |-> key, Response |-> response, Error |-> err]

InlinedResponsesC ==
    { BadResultLine,
      InlinedResponse("q1", GenerateContentResponse(<<TextPartC("Hi")>>, "STOP", Nil), Nil),
      InlinedResponse("q2", Nil, APIError(<<"bad">>)),
      InlinedResponse("q3", [GenerateContentResponse(<<>>, "", Nil) EXCEPT !.Candidates = <<>>],
                      Nil),
      InlinedResponse("q4", Nil, Nil) }

\* The body shared by Client.convertInlinedResponses and the loop of
\* Client.downloadBatchResults (google): one result per response.
resultOfInlinedC(resp) ==
    BatchResult(resp.Key,
                IF resp.Error = Nil /\ resp.Response # Nil
                THEN TransformResponseC(resp.Response) ELSE Nil,
                IF resp.Error # Nil THEN "server_error" ELSE NoError)

\* Client.convertInlinedResponses (google): the responses arrive decoded.
convertInlinedResponses(responses) ==
    [i \in 1..Len(responses) |-> resultOfInlinedC(responses[i])]

\* The loop of Client.downloadBatchResults (google) over the lines of the file.
RECURSIVE downloadBatchResults(_, _)
downloadBatchResults(lines, i) ==
    IF i > Len(lines) THEN <<>>
    ELSE IF ~lines[i].json THEN downloadBatchResults(lines, i + 1)
    ELSE <<resultOfInlinedC(lines[i])>> \o downloadBatchResults(lines, i + 1)

\* Manager.GetResults over each provider's GetBatchResults
GetResultsOpenAI ==
    \E lines \in SeqsUpTo(OutputLinesA, MaxLines) :
        Applied("GetResults", [provider |-> "openai", lines |-> lines],
                convertResults(getBatchResultsA(lines, 1)))

GetResultsAnthropic ==
    \E lines \in SeqsUpTo(ResultItemsB, MaxLines) :
        Applied("GetResults", [provider |-> "anthropic", lines |-> lines],
                convertResults(getBatchResultsB(lines, 1)))

GetResultsGoogleInline ==
    \E responses \in SeqsUpTo(InlinedResponsesC \ {BadResultLine}, MaxLines) :
        Applied("GetResults", [provider |-> "google", lines |-> responses],
                convertResults(convertInlinedResponses(responses)))

GetResultsGoogleFile ==
    \E lines \in SeqsUpTo(InlinedResponsesC, MaxLines) :
        Applied("GetResults", [provider |-> "google", lines |-> lines],
                convertResults(downloadBatchResults(lines, 1)))

\* google.BatchJob as convertBatchStatus reads it: Error and Metadata are pointers.
BatchJobC(done, err, metadata) == [Done |-> done, Error |-> err, Metadata |-> metadata]

BatchMetadata(state) == [nil |-> FALSE, State |-> state]

StatePrefixes == {"JOB_STATE_", "BATCH_STATE_", "STATE_"}

StateNames ==
    {"UNSPECIFIED", "PENDING", "RUNNING", "SUCCEEDED", "FAILED", "CANCELLED", "EXPIRED"}

\* convertBatchStatus that knows the JOB_STATE_ spellings only.
convertBatchStatus_JobPrefixOnly(batch) ==
    IF batch.Done
    THEN IF batch.Error # Nil THEN "failed" ELSE "completed"
    ELSE IF batch.Metadata = Nil THEN "pending"
    ELSE CASE batch.Metadata.State = "JOB_STATE_PENDING" -> "pending"
           [] batch.Metadata.State = "JOB_STATE_RUNNING" -> "in_progress"
           [] batch.Metadata.State = "JOB_STATE_SUCCEEDED" -> "completed"
           [] batch.Metadata.State = "JOB_STATE_FAILED" -> "failed"
           [] batch.Metadata.State = "JOB_STATE_CANCELLED" -> "cancelled"
           [] batch.Metadata.State = "JOB_STATE_EXPIRED" -> "expired"
           [] OTHER -> "pending"

\* Client.convertBatchStatus (google)
convertBatchStatus(batch) ==
    IF batch.Done
    THEN IF batch.Error # Nil THEN "failed" ELSE "completed"
    ELSE IF batch.Metadata = Nil THEN "pending"
    ELSE CASE batch.Metadata.State \in {"JOB_STATE_PENDING", "BATCH_STATE_PENDING"} -> "pending"
           [] batch.Metadata.State \in {"JOB_STATE_RUNNING", "BATCH_STATE_RUNNING"} ->
                "in_progress"
           [] batch.Metadata.State \in {"JOB_STATE_SUCCEEDED", "BATCH_STATE_SUCCEEDED"} ->
                "completed"
           [] batch.Metadata.State \in {"JOB_STATE_FAILED", "BATCH_STATE_FAILED"} -> "failed"
           [] batch.Metadata.State \in {"JOB_STATE_CANCELLED", "BATCH_STATE_CANCELLED"} ->
                "cancelled"
           [] batch.Metadata.State \in {"JOB_STATE_EXPIRED", "BATCH_STATE_EXPIRED"} -> "expired"
           [] OTHER -> "pending"

\* convertBatchStatus on a job with metadata, the state spelled prefix + name, and on a
\* job without metadata.
ConvertBatchStatus ==
    \E done \in BOOLEAN, err \in {Nil, APIError(<<"bad">>)} :
        \/ \E prefix \in StatePrefixes, name \in StateNames :
               LET batch == BatchJobC(done, err, BatchMetadata(prefix \o name))
               IN  Applied("convertBatchStatus",
                           [batch |-> batch, prefix |-> prefix, name |-> name],
                           convertBatchStatus(batch))
        \/ LET batch == BatchJobC(done, err, Nil)
           IN  Applied("convertBatchStatus", [batch |-> batch, prefix |-> "", name |-> ""],
                       convertBatchStatus(batch))

\* ---- HTTP error mapping ----

\* A message is a sequence of words; no word occurs inside another or across
\* a boundary, so containment of a word sequence is substring containment.
Words == {"context", "_length", "token", "bad"}

MaxWords == 2

Messages == SeqsUpTo(Words, MaxWords)

\* strings.Contains(message, substr)
Contains(message, substr) ==
    \E i \in 0..(Len(message) - Len(substr)) :
        \A j \in 1..Len(substr) : message[i + j] = substr[j]

RouterError(code, provider, statusCode) ==
    [nil |-> FALSE, Code |-> code, Provider |-> provider, StatusCode |-> statusCode,
     Cause |-> Nil]

\* OpenAI: a 400 is a context-length error only when the message contains
\* "context_length".
mapAPIErrorA(apiErr, statusCode) ==
    CASE statusCode = 401 -> RouterError("invalid_api_key", "openai", statusCode)
      [] statusCode = 429 -> RouterError("rate_limit", "openai", statusCode)
      [] statusCode = 404 -> RouterError("model_not_found", "openai", statusCode)
      [] statusCode = 400 ->
            IF Contains(apiErr.Message, <<"context", "_length">>)
            THEN RouterError("context_length_exceeded", "openai", statusCode)
            ELSE RouterError("invalid_request", "openai", statusCode)
      [] OTHER -> RouterError("server_error", "openai", statusCode)

mapAPIErrorB(apiErr, statusCode) ==
    CASE statusCode = 401 -> RouterError("invalid_api_key", "anthropic", statusCode)
      [] statusCode = 429 -> RouterError("rate_limit", "anthropic", statusCode)
      [] statusCode = 404 -> RouterError("model_not_found", "anthropic", statusCode)
      [] statusCode = 400 ->
            IF Contains(apiErr.Message, <<"context">>) \/ Contains(apiErr.Message, <<"token">>)
            THEN RouterError("context_length_exceeded", "anthropic", statusCode)
            ELSE RouterError("invalid_request", "anthropic", statusCode)
      [] OTHER -> RouterError("server_error", "anthropic", statusCode)

mapAPIErrorC(apiErr, statusCode) ==
    CASE statusCode = 401 -> RouterError("invalid_api_key", "google", statusCode)
      [] statusCode = 429 -> RouterError("rate_limit", "google", statusCode)
      [] statusCode = 404 -> RouterError("model_not_found", "google", statusCode)
      [] statusCode = 400 ->
            IF Contains(apiErr.Message, <<"context">>) \/ Contains(apiErr.Message, <<"token">>)
            THEN RouterError("context_length_exceeded", "google", statusCode)
            ELSE RouterError("invalid_request", "google", statusCode)
      [] OTHER -> RouterError("server_error", "google", statusCode)

\* errResp is the error object decoded from the response body, Nil when the
\* body does not decode to one.
handleErrorResponse(p, errResp, statusCode) ==
    IF errResp # Nil
    THEN CASE p = "openai" -> mapAPIErrorA(errResp, statusCode)
           [] p = "anthropic" -> mapAPIErrorB(errResp, statusCode)
           [] p = "google" -> mapAPIErrorC(errResp, statusCode)
    ELSE RouterError("server_error", p, statusCode)

StatusCodes == {400, 401, 403, 404, 429, 500, 503}

HandleErrorResponse ==
    \E p \in ProviderNames, statusCode \in StatusCodes,
       errResp \in {Nil} \cup {APIError(m) : m \in Messages} :
        Applied("handleErrorResponse",
                [provider |-> p, errResp |-> errResp, statusCode |-> statusCode],
                handleErrorResponse(p, errResp, statusCode))

\* ---- Retryable errors ----

ErrorCodes ==
    {"invalid_request", "authentication_error", "rate_limit", "server_error",
     "unsupported_feature", "provider_unavailable", "timeout", "content_filter",
     "invalid_api_key", "model_not_found", "context_length_exceeded"}

\* The longest chain of causes under an error.
MaxChain == 1

\* An error that is not a RouterError: errors.New when it wraps nothing,
\* fmt.Errorf("%w") when it wraps another error.
wrapError(err) == [nil |-> FALSE, wraps |-> err]

\* RouterError.WithCause
WithCause(e, err) == [e EXCEPT !.Cause = err]

IsRouterError(err) == err # Nil /\ "Code" \in DOMAIN err

RECURSIVE ErrorsUpTo(_)
ErrorsUpTo(n) ==
    IF n = 0
    THEN {wrapError(Nil)} \cup {RouterError(code, "", 0) : code \in ErrorCodes}
    ELSE ErrorsUpTo(n - 1)
         \cup {wrapError(e) : e \in ErrorsUpTo(n - 1)}
         \cup {WithCause(RouterError(code, "", 0), e) :
                   code \in ErrorCodes, e \in ErrorsUpTo(n - 1)}

\* RouterError.Unwrap, and the Unwrap of a wrapping error
Unwrap(err) == IF IsRouterError(err) THEN err.Cause ELSE err.wraps

\* errors.As(err, &rerr): the first RouterError on err's Unwrap chain, Nil when
\* there is none.
RECURSIVE As(_)
As(err) ==
    IF err = Nil THEN Nil
    ELSE IF IsRouterError(err) THEN err
    ELSE As(Unwrap(err))

IsRetryable_NoTimeout(err) ==
    LET rerr == As(err)
    IN  rerr # Nil /\ rerr.Code \in {"rate_limit", "server_error"}

IsRetryable(err) ==
    LET rerr == As(err)
    IN  rerr # Nil /\ rerr.Code \in {"rate_limit", "server_error", "timeout"}

\* errors.IsAuthError
IsAuthError(err) ==
    LET rerr == As(err)
    IN  rerr # Nil /\ rerr.Code \in {"authentication_error", "invalid_api_key"}

CallIsRetryable ==
    \E err \in {Nil} \cup ErrorsUpTo(MaxChain) :
        Applied("IsRetryable", err, IsRetryable(err))

\* ---- Request messages on the wire ----

\* The longest conversation of a request, in messages.
MaxMessages == 2

\* types.ContentBlock as a request carries it.  Image blocks are not among
\* the requests drawn below.
RequestBlock(type, text, toolUseID, toolName, toolInput, toolResultID) ==
    [Type |-> type, Text |-> text, ToolUseID |-> toolUseID, ToolName |-> toolName,
     ToolInput |-> toolInput, ToolResultID |-> toolResultID]

NewTextBlock(text) == RequestBlock("text", text, "", "", Nil, "")

NewToolUseBlock(id, name, input) == RequestBlock("tool_use", "", id, name, input, "")

NewToolResultBlock(toolUseID, result) ==
    RequestBlock("tool_result", result, "", "", Nil, toolUseID)

\* types.Message
RoleMessage(role, content) == [Role |-> role, Content |-> content]

Roles == {"system", "user", "assistant", "tool"}

RequestContents ==
    { <<NewTextBlock("a")>>,
      <<NewTextBlock("b")>>,
      <<NewTextBlock("a"), NewTextBlock("b")>>,
      <<NewToolUseBlock("c0", "f", JSONObject({}))>>,
      <<NewToolResultBlock("c0", "r")>>,
      <<NewToolResultBlock("", "r")>>,
      <<NewTextBlock("a"), NewToolResultBlock("c0", "{}")>> }

RequestMessages ==
    SeqsUpTo({RoleMessage(role, content) : role \in Roles, content \in RequestContents},
             MaxMessages)

\* A wire field of type `any` that holds a string or an array.
StringContent(text) == [kind |-> "string", value |-> text]

ArrayContent(elements) == [kind |-> "array", value |-> elements]

\* json.Marshal of a tool input
Marshal(v) == IF v = Nil THEN "null" ELSE "{}"

\* The text of the text blocks of a content, concatenated.
RECURSIVE textOf(_)
textOf(content) ==
    IF content = <<>> THEN ""
    ELSE (IF Head(content).Type = "text" THEN Head(content).Text ELSE "")
         \o textOf(Tail(content))

ChatMessage(role, content, toolCalls, toolCallID) ==
    [Role |-> role, Content |-> content, ToolCalls |-> toolCalls, ToolCallID |-> toolCallID]

\* The loop of a tool message: one wire message per tool_result block.
RECURSIVE toolResultsA(_, _)
toolResultsA(role, content) ==
    IF content = <<>> THEN <<>>
    ELSE (IF Head(content).Type = "tool_result"
          THEN <<ChatMessage(role, StringContent(Head(content).Text), <<>>,
                             Head(content).ToolResultID)>>
          ELSE <<>>)
         \o toolResultsA(role, Tail(content))

RECURSIVE toolCallsOfA(_)
toolCallsOfA(content) ==
    IF content = <<>> THEN <<>>
    ELSE (IF Head(content).Type = "tool_use"
          THEN <<[ID |-> Head(content).ToolUseID, Type |-> "function",
                  Function |-> [Name |-> Head(content).ToolName,
                                Arguments |-> Marshal(Head(content).ToolInput)]]>>
          ELSE <<>>)
         \o toolCallsOfA(Tail(content))

RECURSIVE partsOfA(_)
partsOfA(content) ==
    IF content = <<>> THEN <<>>
    ELSE (IF Head(content).Type = "text"
          THEN <<[Type |-> "text", Text |-> Head(content).Text]>>
          ELSE <<>>)
         \o partsOfA(Tail(content))

\* openai.Transformer.transformMessages: system messages stay in the message
\* list under their own role.
RECURSIVE transformMessagesA(_)
transformMessagesA(messages) ==
    IF messages = <<>> THEN <<>>
    ELSE LET msg == Head(messages)
             hasMultipleParts == Len(msg.Content) > 1
             hasImages == \E i \in DOMAIN msg.Content : msg.Content[i].Type = "image"
             hasToolCalls == \E i \in DOMAIN msg.Content : msg.Content[i].Type = "tool_use"
         IN  (IF msg.Role = "tool"
              THEN toolResultsA(msg.Role, msg.Content)
              ELSE IF hasToolCalls /\ msg.Role = "assistant"
              THEN <<ChatMessage(msg.Role,
                                    IF textOf(msg.Content) # ""
                                    THEN StringContent(textOf(msg.Content))
                                    ELSE Nil,
                                    toolCallsOfA(msg.Content), "")>>
              ELSE IF hasImages \/ hasMultipleParts
              THEN <<ChatMessage(msg.Role, ArrayContent(partsOfA(msg.Content)), <<>>, "")>>
              ELSE <<ChatMessage(msg.Role, StringContent(textOf(msg.Content)), <<>>, "")>>)
             \o transformMessagesA(Tail(messages))

\* anthropic.Transformer.mapRole and google.Transformer.mapRole
mapRoleB(role) == IF role = "assistant" THEN "assistant" ELSE "user"

mapRoleC(role) == IF role = "assistant" THEN "model" ELSE "user"

\* anthropic.Transformer.transformContentBlocks
RECURSIVE transformContentBlocks(_)
transformContentBlocks(blocks) ==
    IF blocks = <<>> THEN <<>>
    ELSE LET block == Head(blocks)
         IN  (CASE block.Type = "text" -> <<[Type |-> "text", Text |-> block.Text]>>
                [] block.Type = "tool_use" ->
                     <<[Type |-> "tool_use", ID |-> block.ToolUseID,
                        Name |-> block.ToolName, Input |-> block.ToolInput]>>
                [] block.Type = "tool_result" ->
                     <<[Type |-> "tool_result", ToolUseID |-> block.ToolResultID,
                        Content |-> StringContent(block.Text)]>>
                [] OTHER -> <<>>)
             \o transformContentBlocks(Tail(blocks))

\* The system text after the text blocks of one system message are added.
RECURSIVE systemTextB(_, _)
systemTextB(system, content) ==
    IF content = <<>> THEN system
    ELSE LET block == Head(content)
         IN  systemTextB(IF block.Type = "text"
                         THEN (IF system # "" THEN system \o "\n" ELSE system) \o block.Text
                         ELSE system,
                         Tail(content))

\* anthropic.Transformer.transformMessages, from the state of its loop
RECURSIVE transformLoopB(_, _, _)
transformLoopB(messages, result, system) ==
    IF messages = <<>> THEN [messages |-> result, system |-> system]
    ELSE LET msg == Head(messages)
         IN  IF msg.Role = "system"
             THEN transformLoopB(Tail(messages), result, systemTextB(system, msg.Content))
             ELSE transformLoopB(
                      Tail(messages),
                      Append(result,
                             [Role |-> mapRoleB(msg.Role),
                              Content |-> IF Len(msg.Content) = 1 /\ msg.Content[1].Type = "text"
                                          THEN StringContent(msg.Content[1].Text)
                                          ELSE ArrayContent(
                                                   transformContentBlocks(msg.Content))]),
                      system)

transformMessagesB(messages) == transformLoopB(messages, <<>>, "")

\* google.Transformer.transformParts.  A tool result becomes a function
\* response named by the block's ToolName.
RECURSIVE transformParts(_)
transformParts(blocks) ==
    IF blocks = <<>> THEN <<>>
    ELSE LET block == Head(blocks)
         IN  (CASE block.Type = "text" -> <<[Text |-> block.Text]>>
                [] block.Type = "tool_use" ->
                     <<[FunctionCall |-> [Name |-> block.ToolName, Args |-> block.ToolInput]]>>
                [] block.Type = "tool_result" ->
                     <<[FunctionResponse |->
                            [Name |-> block.ToolName,
                             Response |-> IF Unmarshal(block.Text) # Nil
                                          THEN Unmarshal(block.Text)
                                          ELSE JSONObject({<<"result", block.Text>>})]]>>
                [] OTHER -> <<>>)
             \o transformParts(Tail(blocks))

\* The text parts of one system message.
RECURSIVE systemPartsC(_)
systemPartsC(content) ==
    IF content = <<>> THEN <<>>
    ELSE (IF Head(content).Type = "text" THEN <<[Text |-> Head(content).Text]>> ELSE <<>>)
         \o systemPartsC(Tail(content))

\* google.Transformer.transformMessages, from the state of its loop: each
\* system message with a text part assigns systemInstruction anew.
RECURSIVE transformLoopC(_, _, _)
transformLoopC(messages, contents, systemInstruction) ==
    IF messages = <<>> THEN [messages |-> contents, system |-> systemInstruction]
    ELSE LET msg == Head(messages)
         IN  IF msg.Role = "system"
             THEN transformLoopC(Tail(messages), contents,
                                 IF systemPartsC(msg.Content) # <<>>
                                 THEN [nil |-> FALSE, Parts |-> systemPartsC(msg.Content)]
                                 ELSE systemInstruction)
             ELSE transformLoopC(Tail(messages),
                                 Append(contents, [Role |-> mapRoleC(msg.Role),
                                                   Parts |-> transformParts(msg.Content)]),
                                 systemInstruction)

transformMessagesC(messages) == transformLoopC(messages, <<>>, Nil)

\* TransformRequest of each provider, as far as the messages go.  None of the
\* three can fail: the client sends what it returns.
TransformRequest(p, messages) ==
    CASE p = "openai" ->
            [messages |-> transformMessagesA(messages), system |-> Nil, err |-> NoError]
      [] p = "anthropic" ->
            [messages |-> transformMessagesB(messages).messages,
             system |-> transformMessagesB(messages).system, err |-> NoError]
      [] p = "google" ->
            [messages |-> transformMessagesC(messages).messages,
             system |-> transformMessagesC(messages).system, err |-> NoError]

CallTransformRequest ==
    \E p \in ProviderNames, messages \in RequestMessages :
        Applied("TransformRequest", [provider |-> p, messages |-> messages],
                TransformRequest(p, messages))

\* ---- Strict schemas for OpenAI ----

\* The deepest nesting of sub-schemas under a schema's root.
MaxDepth == 2

\* A *bool that is set.
BoolPtr(b) == [nil |-> FALSE, value |-> b]

\* types.JSONSchema: its type, its additionalProperties pointer and the fields that hold sub-schemas.  Properties and Defs are maps
\* from names, AnyOf, OneOf and AllOf are lists, Items is a pointer.
JSONSchema(type, additionalProperties, properties, items, anyOf, oneOf, allOf, defs) ==
    [Type |-> type, AdditionalProperties |-> additionalProperties,
     Properties |-> properties, Items |-> items,
     AnyOf |-> anyOf, OneOf |-> oneOf, AllOf |-> allOf, Defs |-> defs]

NoSchemas == <<>>

LeafSchemas ==
    {JSONSchema(type, ap, NoSchemas, Nil, <<>>, <<>>, <<>>, NoSchemas) :
        type \in {"object", "string"}, ap \in {Nil, BoolPtr(TRUE)}}

\* The schemas with one sub-schema, put in each of the six places.
Nest(type, child) ==
    { JSONSchema(type, Nil, [n \in {"p"} |-> child], Nil, <<>>, <<>>, <<>>, NoSchemas),
      JSONSchema(type, Nil, NoSchemas, child, <<>>, <<>>, <<>>, NoSchemas),
      JSONSchema(type, Nil, NoSchemas, Nil, <<child>>, <<>>, <<>>, NoSchemas),
      JSONSchema(type, Nil, NoSchemas, Nil, <<>>, <<child>>, <<>>, NoSchemas),
      JSONSchema(type, Nil, NoSchemas, Nil, <<>>, <<>>, <<child>>, NoSchemas),
      JSONSchema(type, Nil, NoSchemas, Nil, <<>>, <<>>, <<>>, [n \in {"d"} |-> child]) }

RECURSIVE SchemasUpTo(_)
SchemasUpTo(depth) ==
    IF depth = 0 THEN LeafSchemas
    ELSE LeafSchemas
         \cup UNION { Nest(type, child) :
                          type \in {"object", "array"}, child \in SchemasUpTo(depth - 1) }

\* JSONSchema.ToMap: the schema marshalled and unmarshalled into a map; the
\* omitempty fields that are empty have no key.
RECURSIVE ToMap(_)
ToMap(sch) ==
    LET keys == (IF sch.Type # "" THEN {"type"} ELSE {})
                \cup (IF sch.AdditionalProperties # Nil THEN {"additionalProperties"} ELSE {})
                \cup (IF DOMAIN sch.Properties # {} THEN {"properties"} ELSE {})
                \cup (IF sch.Items # Nil THEN {"items"} ELSE {})
                \cup (IF sch.AnyOf # <<>> THEN {"anyOf"} ELSE {})
                \cup (IF sch.OneOf # <<>> THEN {"oneOf"} ELSE {})
                \cup (IF sch.AllOf # <<>> THEN {"allOf"} ELSE {})
                \cup (IF DOMAIN sch.Defs # {} THEN {"$defs"} ELSE {})
    IN  [k \in keys |->
            CASE k = "type" -> sch.Type
              [] k = "additionalProperties" -> sch.AdditionalProperties.value
              [] k = "properties" ->
                    [n \in DOMAIN sch.Properties |-> ToMap(sch.Properties[n])]
              [] k = "items" -> ToMap(sch.Items)
              [] k = "anyOf" -> [i \in DOMAIN sch.AnyOf |-> ToMap(sch.AnyOf[i])]
              [] k = "oneOf" -> [i \in DOMAIN sch.OneOf |-> ToMap(sch.OneOf[i])]
              [] k = "allOf" -> [i \in DOMAIN sch.AllOf |-> ToMap(sch.AllOf[i])]
              [] k = "$defs" -> [n \in DOMAIN sch.Defs |-> ToMap(sch.Defs[n])]]

\* addAdditionalPropertiesFalse that stops at the root.
addAdditionalPropertiesFalse_RootOnly(schema) ==
    IF "type" \in DOMAIN schema /\ schema["type"] = "object"
    THEN [k \in DOMAIN schema \cup {"additionalProperties"} |->
             IF k = "additionalProperties" THEN FALSE ELSE schema[k]]
    ELSE schema

\* Translator.addAdditionalPropertiesFalse: the map after the in-place update.
RECURSIVE addAdditionalPropertiesFalse(_)
addAdditionalPropertiesFalse(schema) ==
    LET typed == IF "type" \in DOMAIN schema /\ schema["type"] = "object"
                 THEN [k \in DOMAIN schema \cup {"additionalProperties"} |->
                          IF k = "additionalProperties" THEN FALSE ELSE schema[k]]
                 ELSE schema
    IN  [k \in DOMAIN typed |->
            CASE k \in {"properties", "$defs"} ->
                    [n \in DOMAIN typed[k] |-> addAdditionalPropertiesFalse(typed[k][n])]
              [] k = "items" -> addAdditionalPropertiesFalse(typed[k])
              [] k \in {"anyOf", "oneOf", "allOf"} ->
                    [i \in DOMAIN typed[k] |-> addAdditionalPropertiesFalse(typed[k][i])]
              [] OTHER -> typed[k]]

\* Translator.prepareOpenAISchema
prepareOpenAISchema(sch) ==
    IF sch = Nil THEN Nil ELSE addAdditionalPropertiesFalse(ToMap(sch))

PrepareOpenAISchema ==
    \E sch \in {Nil} \cup SchemasUpTo(MaxDepth) :
        Applied("prepareOpenAISchema", sch, prepareOpenAISchema(sch))

\* ---- Stop reasons ----

\* The finish reasons of the three vocabularies, the empty string and
\* strings none of them knows.
ReasonStrings ==
    {"stop", "length", "tool_calls", "content_filter",
     "end_turn", "max_tokens", "tool_use", "stop_sequence",
     "STOP", "MAX_TOKENS", "SAFETY", "RECITATION", "OTHER",
     "", "Stop", "function_call", "pause_turn", "refusal",
     "MALFORMED_FUNCTION_CALL", "BLOCKLIST", "LANGUAGE"}

\* transformStopReason of the provider's transformer
transformStopReason(p, reason) ==
    CASE p = "openai" -> transformStopReasonA(reason)
      [] p = "anthropic" -> transformStopReasonB(reason)
      [] p = "google" -> transformStopReasonC(reason)

CallTransformStopReason ==
    \E p \in ProviderNames, reason \in ReasonStrings :
        Applied("transformStopReason", [provider |-> p, reason |-> reason],
                transformStopReason(p, reason))

\* ---- OpenAI requests on the wire ----

\* The most requests of one batch.
MaxRequests == 2

StreamOptions(includeUsage) == [nil |-> FALSE, IncludeUsage |-> includeUsage]

\* openai.Transformer.TransformRequest: the Stream and StreamOptions fields of the
\* ChatCompletionRequest it builds.
TransformRequestA(req) ==
    [Stream |-> req.Stream,
     StreamOptions |-> IF req.Stream THEN StreamOptions(TRUE) ELSE Nil]

\* json.Marshal of a ChatCompletionRequest, as the keys it writes and their JSON
\* text: "stream" and "stream_options" are omitempty, so a false Stream and a nil
\* StreamOptions write nothing.
MarshalRequestA(oaiReq) ==
    LET written == (IF oaiReq.Stream THEN {"stream"} ELSE {})
                     \cup (IF oaiReq.StreamOptions # Nil THEN {"stream_options"} ELSE {})
    IN  [k \in written |->
            IF k = "stream" THEN "true"
            ELSE IF oaiReq.StreamOptions.IncludeUsage THEN "{\"include_usage\":true}"
            ELSE "{}"]

\* A request the client hands to its http.Client.
HTTPRequest(method, path, payload) ==
    [Method |-> method, Path |-> path, Payload |-> payload]

\* Client.Complete (openai) up to httpClient.Do: the request it sends.
completeRequestA(req) ==
    LET oaiReq == [TransformRequestA(req) EXCEPT !.Stream = FALSE]
    IN  HTTPRequest("POST", "/chat/completions", MarshalRequestA(oaiReq))

\* Client.Stream (openai) up to httpClient.Do: the request it sends.
streamRequestA(req) ==
    LET oaiReq == [TransformRequestA(req) EXCEPT !.Stream = TRUE,
                                                 !.StreamOptions = StreamOptions(TRUE)]
    IN  HTTPRequest("POST", "/chat/completions", MarshalRequestA(oaiReq))

\* The loop of CreateBatch over one provider.BatchRequest: the BatchInputLine.
batchInputLine(request) ==
    LET oaiReq == [TransformRequestA(request.Request) EXCEPT !.Stream = FALSE]
    IN  [CustomID |-> request.CustomID, Method |-> "POST",
         URL |-> "/v1/chat/completions", Body |-> MarshalRequestA(oaiReq)]

\* What the service does with one request: the transport fails, or a response comes
\* back with a status and a body that decodes or not; a body that decodes carries an
\* error object (errResp), a file id (upload) or a batch status (create).
Answer(transport, statusCode, json, errResp, id, status) ==
    [transport |-> transport, statusCode |-> statusCode, json |-> json,
     errResp |-> errResp, id |-> id, status |-> status]

TransportFailure == Answer(FALSE, 0, FALSE, Nil, "", "")

ErrorAnswers ==
    { Answer(TRUE, code, e # Nil, e, "", "") :
        code \in {401, 500}, e \in {Nil, APIError(<<>>)} }

UploadAnswers ==
    {TransportFailure, Answer(TRUE, 200, FALSE, Nil, "", "")}
        \cup ErrorAnswers
        \cup { Answer(TRUE, 200, TRUE, Nil, id, "") : id \in {"", "file-1"} }

CreateAnswers ==
    {TransportFailure, Answer(TRUE, 200, FALSE, Nil, "", "")}
        \cup ErrorAnswers
        \cup { Answer(TRUE, 200, TRUE, Nil, "b1", st) : st \in {"validating", "cancelling"} }

\* Client.convertBatchStatus (openai)
convertBatchStatusA(status) ==
    CASE status = "validating" -> "validating"
      [] status = "in_progress" -> "in_progress"
      [] status = "finalizing" -> "finalizing"
      [] status = "completed" -> "completed"
      [] status = "failed" -> "failed"
      [] status = "expired" -> "expired"
      [] status = "cancelling" -> "in_progress"
      [] status = "cancelled" -> "cancelled"
      [] OTHER -> "pending"

\* Client.convertBatchJob (openai)
convertBatchJobA(answer) ==
    [nil |-> FALSE, ID |-> answer.id, Status |-> convertBatchStatusA(answer.status)]

\* uploadBatchFile that does not look at the status of the upload response.
uploadBatchFile_NoStatusCheck(content, answer) ==
    LET sent == <<HTTPRequest("POST", "/files", content)>>
    IN  IF ~answer.transport
        THEN [wire |-> sent, id |-> "",
              err |-> RouterError("provider_unavailable", "openai", 0)]
        ELSE IF ~answer.json /\ answer.statusCode = 200
        THEN [wire |-> sent, id |-> "", err |-> RouterError("server_error", "openai", 0)]
        ELSE [wire |-> sent, id |-> answer.id, err |-> Nil]

\* Client.uploadBatchFile: the request it sends, the file id and the error.
uploadBatchFile(content, answer) ==
    LET sent == <<HTTPRequest("POST", "/files", content)>>
    IN  IF ~answer.transport
        THEN [wire |-> sent, id |-> "",
              err |-> RouterError("provider_unavailable", "openai", 0)]
        ELSE IF answer.statusCode # 200
        THEN [wire |-> sent, id |-> "",
              err |-> handleErrorResponse("openai", answer.errResp, answer.statusCode)]
        ELSE IF ~answer.json
        THEN [wire |-> sent, id |-> "", err |-> RouterError("server_error", "openai", 0)]
        ELSE [wire |-> sent, id |-> answer.id, err |-> Nil]

\* Client.CreateBatch (openai): the requests it sends, in order, the job and the error.
createBatch(requests, uploaded, created) ==
    LET content == [i \in 1..Len(requests) |-> batchInputLine(requests[i])]
        u == uploadBatchFile(content, uploaded)
    IN  IF u.err # Nil THEN [wire |-> u.wire, job |-> Nil, err |-> u.err]
        ELSE LET createReq == [InputFileID |-> u.id, Endpoint |-> "/v1/chat/completions",
                               CompletionWindow |-> "24h"]
                 sent == Append(u.wire, HTTPRequest("POST", "/batches", createReq))
             IN  IF ~created.transport
                 THEN [wire |-> sent, job |-> Nil,
                       err |-> RouterError("provider_unavailable", "openai", 0)]
                 ELSE IF created.statusCode # 200
                 THEN [wire |-> sent, job |-> Nil,
                       err |-> handleErrorResponse("openai", created.errResp,
                                                   created.statusCode)]
                 ELSE IF ~created.json
                 THEN [wire |-> sent, job |-> Nil,
                       err |-> RouterError("server_error", "openai", 0)]
                 ELSE [wire |-> sent, job |-> convertBatchJobA(created), err |-> Nil]

\* The callers' requests: the Stream field is the caller's to set.
StreamFlagRequests == { [Stream |-> f] : f \in BOOLEAN }

BatchRequests ==
    UNION { { [i \in 1..k |-> [CustomID |-> <<"r", i>>, Request |-> q[i]]] :
                q \in [1..k -> StreamFlagRequests] } : k \in 0..MaxRequests }

CallCreateBatch ==
    \E requests \in BatchRequests, uploaded \in UploadAnswers, created \in CreateAnswers :
        Applied("CreateBatch",
                [requests |-> requests, uploaded |-> uploaded, created |-> created],
                createBatch(requests, uploaded, created))

CallCompleteA ==
    \E req \in StreamFlagRequests :
        Applied("Complete", [req |-> req], <<completeRequestA(req)>>)

CallStreamA ==
    \E req \in StreamFlagRequests :
        Applied("Stream", [req |-> req], <<streamRequestA(req)>>)

CallsInit ==
    /\ applied = Nil
    /\ StreamIdle
    /\ RouterIdle

CallsNext ==
    \/ GetResultsOpenAI
    \/ GetResultsAnthropic
    \/ GetResultsGoogleInline
    \/ GetResultsGoogleFile
    \/ ConvertBatchStatus
    \/ HandleErrorResponse
    \/ CallIsRetryable
    \/ CallTransformRequest
    \/ PrepareOpenAISchema
    \/ CallTransformStopReason
    \/ CallCreateBatch
    \/ CallCompleteA
    \/ CallStreamA

SpecCalls == CallsInit /\ [][CallsNext]_vars

\* C12: every result GetResults returns carries exactly one of a response and an
\* error, never both and never neither.
C12_ResultHasExactlyOne ==
    (applied # Nil /\ applied.fn = "GetResults")
        => \A i \in DOMAIN applied.out :
               (applied.out[i].Response # Nil) <=> (applied.out[i].Error = NoError)

\* The canonical status of a state of the enum, by the state's name.
StatusOfStateName(name) ==
    CASE name = "PENDING" -> "pending"
      [] name = "RUNNING" -> "in_progress"
      [] name = "SUCCEEDED" -> "completed"
      [] name = "FAILED" -> "failed"
      [] name = "CANCELLED" -> "cancelled"
      [] name = "EXPIRED" -> "expired"
      [] OTHER -> "pending"

\* C13: for the provider with a done flag and a state enum, done with an error gives
\* failed and done without one gives completed; when not done the status follows the
\* state enum, the JOB_STATE_ and the BATCH_STATE_ spelling of a state giving the
\* same status.
C13_DoneThenStateEnum ==
    (applied # Nil /\ applied.fn = "convertBatchStatus")
        => LET batch == applied.in.batch
           IN  /\ (batch.Done /\ batch.Error # Nil) => applied.out = "failed"
               /\ (batch.Done /\ batch.Error = Nil) => applied.out = "completed"
               /\ (~batch.Done /\ applied.in.prefix \in {"JOB_STATE_", "BATCH_STATE_"})
                     => applied.out = StatusOfStateName(applied.in.name)

\* C13 witness: a job that is not done, in the BATCH_STATE_ spelling of expired.
C13_Witness ==
    /\ applied # Nil /\ applied.fn = "convertBatchStatus"
    /\ ~applied.in.batch.Done /\ applied.in.batch.Metadata # Nil
    /\ applied.in.batch.Metadata.State = "BATCH_STATE_EXPIRED"
    /\ applied.out = "expired"

\* C14: for each of the three providers, a non-success response whose body
\* carries an error object is mapped by status: 401 gives invalid_api_key,
\* 429 rate_limit, 404 model_not_found, 400 context_length when the message
\* contains "context" or "token" and invalid_request otherwise, every other
\* status server_error.
C14_StatusTable ==
    (applied # Nil /\ applied.fn = "handleErrorResponse" /\ applied.in.errResp # Nil) =>
        LET status == applied.in.statusCode
            message == applied.in.errResp.Message
        IN  applied.out.Code =
                CASE status = 401 -> "invalid_api_key"
                  [] status = 429 -> "rate_limit"
                  [] status = 404 -> "model_not_found"
                  [] status = 400 ->
                        IF Contains(message, <<"context">>) \/ Contains(message, <<"token">>)
                        THEN "context_length_exceeded"
                        ELSE "invalid_request"
                  [] OTHER -> "server_error"

RetryableCodes == {"rate_limit", "server_error", "timeout"}

\* C15 as stated: IsRetryable(err) is true exactly when err is a RouterError
\* whose code is rate_limit, server_error or timeout, and false for every
\* error that is not a RouterError.
C15_RetryableIffRouterErrorCode ==
    (applied # Nil /\ applied.fn = "IsRetryable") =>
        (applied.out = (IsRouterError(applied.in) /\ applied.in.Code \in RetryableCodes))

\* The errors on err's chain of causes, outermost first.
RECURSIVE ChainOf(_)
ChainOf(err) == IF err = Nil THEN <<>> ELSE <<err>> \o ChainOf(Unwrap(err))

\* C15 amended: IsRetryable(err) is true exactly when the outermost
\* RouterError on err's chain of wrapped errors (err itself or an error it
\* wraps) has code rate_limit, server_error or timeout; it is false when the
\* chain holds no RouterError.
C15_RetryableIffOutermostRouterErrorCode ==
    (applied # Nil /\ applied.fn = "IsRetryable") =>
        LET chain == ChainOf(applied.in)
        IN  applied.out =
                (\E i \in DOMAIN chain :
                    /\ IsRouterError(chain[i])
                    /\ chain[i].Code \in RetryableCodes
                    /\ \A j \in 1..(i - 1) : ~IsRouterError(chain[j]))

C15_Witness ==
    /\ applied # Nil
    /\ applied.fn = "IsRetryable"
    /\ IsRouterError(applied.in)
    /\ applied.in.Code = "timeout"
    /\ applied.out = TRUE

\* The calls named by the tool_use blocks of a content sequence, in order.
RECURSIVE ToolUsesOf(_)
ToolUsesOf(content) ==
    IF content = <<>> THEN <<>>
    ELSE LET block == Head(content)
         IN  (IF block.Type = "tool_use"
              THEN <<ToolCall(block.ToolUseID, block.ToolName, block.ToolInput)>>
              ELSE <<>>)
             \o ToolUsesOf(Tail(content))

\* C16: in every CompletionResponse a stream reader's Response() returns,
\* and in the response the non-streaming transformer builds from the same
\* message, ToolCalls equals, in order, the id, name and input of the
\* tool_use blocks in Content.
C16_ToolCallsFromContent ==
    /\ Response # Nil => Response.ToolCalls = ToolUsesOf(Response.Content)
    /\ (WellFormedMessage /\ NonStreamingResponse # Nil) =>
           NonStreamingResponse.ToolCalls = ToolUsesOf(NonStreamingResponse.Content)

\* The ids of the tool results of a request's tool messages, in order.
RECURSIVE ToolResultIDs(_)
ToolResultIDs(messages) ==
    IF messages = <<>> THEN <<>>
    ELSE LET msg == Head(messages)
         IN  (IF msg.Role = "tool"
              THEN [i \in 1..Len(SelectSeq(msg.Content, LAMBDA b : b.Type = "tool_result")) |->
                       SelectSeq(msg.Content, LAMBDA b : b.Type = "tool_result")[i].ToolResultID]
              ELSE <<>>)
             \o ToolResultIDs(Tail(messages))

\* The ids the tool results of one wire message carry, in order: tool_call_id
\* for OpenAI, tool_use_id for Anthropic, and for Google what the function
\* response holds besides its name and response.
RECURSIVE CarriedIDs(_)
CarriedIDs(elements) ==
    IF elements = <<>> THEN <<>>
    ELSE LET e == Head(elements)
         IN  (CASE "Type" \in DOMAIN e /\ e.Type = "tool_result" -> <<e.ToolUseID>>
                [] "FunctionResponse" \in DOMAIN e ->
                     IF "ID" \in DOMAIN e.FunctionResponse
                     THEN <<e.FunctionResponse.ID>> ELSE <<>>
                [] OTHER -> <<>>)
             \o CarriedIDs(Tail(elements))

RECURSIVE WireToolResultIDs(_)
WireToolResultIDs(wire) ==
    IF wire = <<>> THEN <<>>
    ELSE LET m == Head(wire)
         IN  (CASE "ToolCallID" \in DOMAIN m ->
                     IF m.Role = "tool" THEN <<m.ToolCallID>> ELSE <<>>
                [] "Parts" \in DOMAIN m -> CarriedIDs(m.Parts)
                [] OTHER -> IF m.Content.kind = "array"
                            THEN CarriedIDs(m.Content.value) ELSE <<>>)
             \o WireToolResultIDs(Tail(wire))

\* C17: for every provider and every request whose tool results all sit in
\* tool messages, the wire form of the tool results carries their tool-use
\* ids, and a request with a tool result whose id is empty is rejected with
\* an error instead of being transformed for sending.
C17_ToolResultCarriesID ==
    (/\ applied # Nil
     /\ applied.fn = "TransformRequest"
     /\ \A i \in DOMAIN applied.in.messages :
            applied.in.messages[i].Role # "tool" =>
                \A j \in DOMAIN applied.in.messages[i].Content :
                    applied.in.messages[i].Content[j].Type # "tool_result") =>
        LET ids == ToolResultIDs(applied.in.messages)
        IN  IF \E i \in DOMAIN ids : ids[i] = ""
            THEN applied.out.err # NoError
            ELSE applied.out.err = NoError
                 /\ WireToolResultIDs(applied.out.messages) = ids

\* The text blocks of a request's system messages, in order.
RECURSIVE SystemTexts(_)
SystemTexts(messages) ==
    IF messages = <<>> THEN <<>>
    ELSE LET msg == Head(messages)
             texts == SelectSeq(msg.Content, LAMBDA b : b.Type = "text")
         IN  (IF msg.Role = "system" THEN [i \in 1..Len(texts) |-> texts[i].Text] ELSE <<>>)
             \o SystemTexts(Tail(messages))

RECURSIVE JoinLines(_)
JoinLines(texts) ==
    IF texts = <<>> THEN ""
    ELSE IF Len(texts) = 1 THEN texts[1]
    ELSE texts[1] \o "\n" \o JoinLines(Tail(texts))

\* The text a system channel holds: Anthropic's system string, and for
\* Google the text parts of systemInstruction read as lines.
SystemChannelText(p, system) ==
    IF p = "anthropic" THEN system
    ELSE IF system = Nil THEN ""
    ELSE JoinLines([i \in 1..Len(system.Parts) |-> system.Parts[i].Text])

\* C18: for Anthropic and Google, which render system messages into a
\* dedicated channel, a request with several system messages produces a
\* channel holding the text of all of them, in order, joined by newlines.
C18_SystemMessagesJoined ==
    (/\ applied # Nil
     /\ applied.fn = "TransformRequest"
     /\ applied.in.provider \in {"anthropic", "google"}
     /\ Len(SelectSeq(applied.in.messages, LAMBDA m : m.Role = "system")) >= 2) =>
        SystemChannelText(applied.in.provider, applied.out.system)
            = JoinLines(SystemTexts(applied.in.messages))

\* The sub-schemas of a schema map reachable through properties, items,
\* anyOf, oneOf, allOf and $defs, the map itself included.
RECURSIVE Reachable(_)
Reachable(m) ==
    {m} \cup UNION { IF k \in {"properties", "$defs", "anyOf", "oneOf", "allOf"}
                     THEN UNION { Reachable(m[k][n]) : n \in DOMAIN m[k] }
                     ELSE IF k = "items" THEN Reachable(m[k])
                     ELSE {} : k \in DOMAIN m }

IsObjectSchema(m) == "type" \in DOMAIN m /\ m["type"] = "object"

\* C19: the strict translation of every schema for OpenAI has
\* additionalProperties = false on every object sub-schema reachable from
\* the root through properties, items, anyOf, oneOf, allOf and $defs, at
\* any depth.
C19_AdditionalPropertiesFalseEverywhere ==
    (applied # Nil /\ applied.fn = "prepareOpenAISchema" /\ applied.in # Nil) =>
        \A m \in Reachable(applied.out) :
            IsObjectSchema(m) =>
                /\ "additionalProperties" \in DOMAIN m
                /\ m["additionalProperties"] = FALSE

\* A schema two levels deep whose innermost object allowed additional
\* properties has been translated.
C19_Witness ==
    /\ applied # Nil
    /\ applied.fn = "prepareOpenAISchema"
    /\ applied.in # Nil
    /\ applied.in.Items # Nil
    /\ applied.in.Items.AnyOf # <<>>
    /\ applied.in.Items.AnyOf[1].Type = "object"
    /\ applied.in.Items.AnyOf[1].AdditionalProperties = BoolPtr(TRUE)
    /\ applied.out["items"]["anyOf"][1]["additionalProperties"] = FALSE

\* types.StopReason: the canonical set.
StopReasons == {"end", "max_tokens", "tool_use", "stop_sequence", "content_filter"}

\* The reasons each provider's vocabulary names, with their canonical values.
RecognizedReasons(p) ==
    CASE p = "openai" ->
            { <<"stop", "end">>, <<"length", "max_tokens">>,
              <<"tool_calls", "tool_use">>, <<"content_filter", "content_filter">> }
      [] p = "anthropic" ->
            { <<"end_turn", "end">>, <<"max_tokens", "max_tokens">>,
              <<"tool_use", "tool_use">>, <<"stop_sequence", "stop_sequence">> }
      [] p = "google" ->
            { <<"STOP", "end">>, <<"MAX_TOKENS", "max_tokens">>,
              <<"SAFETY", "content_filter">>, <<"RECITATION", "content_filter">>,
              <<"OTHER", "end">> }

\* C20: for each provider the stop-reason mapping is total into the
\* canonical set: a recognized reason maps to its canonical value, every
\* other string, the empty one included, maps to end.
C20_StopReasonTotal ==
    (applied # Nil /\ applied.fn = "transformStopReason") =>
        LET table == RecognizedReasons(applied.in.provider)
        IN  /\ applied.out \in StopReasons
            /\ \A pair \in table : applied.in.reason = pair[1] => applied.out = pair[2]
            /\ (\A pair \in table : applied.in.reason # pair[1]) => applied.out = "end"

C20_Witness ==
    /\ applied # Nil
    /\ applied.fn = "transformStopReason"
    /\ applied.in.provider = "google"
    /\ applied.in.reason = ""
    /\ applied.out = "end"

\* The keys of a map in ascending order.
AscendingKeys(keys) ==
    CHOOSE o \in MapOrders(keys) : \A i, j \in DOMAIN o : i < j => o[i] < o[j]

\* C21: the response the OpenAI reader assembles has the text block first,
\* if any text was received, then one tool_use block per tool call in
\* ascending index order, and ToolCalls in the same order.
C21_ToolCallsInIndexOrder ==
    (framing = "A" /\ Response # Nil) =>
        LET o == AscendingKeys(DOMAIN s.toolCalls)
            text == IF s.content # "" THEN <<TextBlock(s.content)>> ELSE <<>>
        IN  /\ Response.ToolCalls = [i \in DOMAIN o |-> s.toolCalls[o[i]]]
            /\ Response.Content =
                   text \o [i \in DOMAIN o |->
                               ToolUseBlock(s.toolCalls[o[i]].ID, s.toolCalls[o[i]].Name,
                                            s.toolCalls[o[i]].Input)]

\* The content blocks the parts of a Google message stand for.
BlocksOfPartsC(parts) ==
    [i \in DOMAIN parts |->
        IF parts[i].FunctionCall = Nil THEN TextBlock(parts[i].Text)
        ELSE ToolUseBlock("", parts[i].FunctionCall.Name, parts[i].FunctionCall.Args)]

\* C22: for the Google reader, over a body whose elements all decode, every
\* part of every chunk is processed in wire order: Response() holds a block
\* for each part (text parts merged into a preceding text block) and one
\* ContentDelta or ToolCallStart event was returned per part.
C22_AllPartsProcessed ==
    (framing = "C" /\ Response # Nil /\ MessageC.ok /\ MessageC.opened) =>
        /\ Response.Content = BlocksOfPartsC(MessageC.parts)
        /\ Len(SelectSeq(events, LAMBDA e : e.Type = "tool_call_start"))
               = Len(SelectSeq(MessageC.parts, LAMBDA p : p.FunctionCall # Nil))

\* The fragments of the ToolCallDelta events strictly between two events.
RECURSIVE FragmentsBetween(_, _)
FragmentsBetween(j, i) ==
    IF j + 1 >= i THEN ""
    ELSE events[j + 1].ToolInputDelta \o FragmentsBetween(j + 1, i)

\* The content-block events of an Anthropic body come block after block:
\* every line decodes, a block starts once and stops once, its deltas are of
\* its type, and between its start and its stop lie only its own deltas.
BlockAfterBlockB ==
    LET IsBlockEvent(i, type, index) ==
            /\ body[i].kind = "event"
            /\ body[i].event = type
            /\ body[i].payload.Index = index
        Indexes == {0, 1}
    IN  /\ \A i \in DOMAIN body : body[i].kind = "event" => body[i].data = "json"
        /\ \A n \in Indexes :
              \A i, j \in DOMAIN body :
                  /\ (IsBlockEvent(i, "content_block_start", n)
                      /\ IsBlockEvent(j, "content_block_start", n)) => i = j
                  /\ (IsBlockEvent(i, "content_block_stop", n)
                      /\ IsBlockEvent(j, "content_block_stop", n)) => i = j
                  /\ (IsBlockEvent(i, "content_block_delta", n)
                      /\ IsBlockEvent(j, "content_block_stop", n)) => i < j
        /\ \A n \in Indexes :
              \A i \in DOMAIN body :
                  (IsBlockEvent(i, "content_block_delta", n)
                   \/ IsBlockEvent(i, "content_block_stop", n)) =>
                      \E j \in 1..(i - 1) :
                          /\ IsBlockEvent(j, "content_block_start", n)
                          /\ (body[i].payload.Delta.PartialJSON # ""
                                 => body[j].payload.ContentBlock.Type = "tool_use")
                          /\ (body[i].payload.Delta.Text # ""
                                 => body[j].payload.ContentBlock.Type = "text")
        /\ \A n \in Indexes :
              \A i, j \in DOMAIN body :
                  (i < j /\ IsBlockEvent(i, "content_block_start", n)
                         /\ IsBlockEvent(j, "content_block_stop", n)) =>
                      \A k \in (i + 1)..(j - 1) :
                          body[k].kind = "event" => IsBlockEvent(k, "content_block_delta", n)

\* C23: for the Anthropic reader over a body whose blocks come one after the
\* other, every ToolCallEnd follows a ToolCallStart with the same id and
\* name, with only ToolCallDelta events between them, carries the input its
\* fragments finalize to, and no block ends twice.
C23_ToolCallEventOrder ==
    (framing = "B" /\ BlockAfterBlockB) =>
        \A i \in DOMAIN events :
            events[i].Type = "tool_call_end" =>
                /\ \E j \in 1..(i - 1) :
                      /\ events[j].Type = "tool_call_start"
                      /\ events[j].ToolCall.ID = events[i].ToolCall.ID
                      /\ events[j].ToolCall.Name = events[i].ToolCall.Name
                      /\ \A k \in (j + 1)..(i - 1) : events[k].Type = "tool_call_delta"
                      /\ FragmentsBetween(j, i) # "" =>
                             events[i].ToolCall.Input = Unmarshal(FragmentsBetween(j, i))
                /\ \A k \in DOMAIN events :
                      (events[k].Type = "tool_call_end"
                       /\ events[k].ToolCall.ID = events[i].ToolCall.ID) => k = i

(***************************************************************************)
(* Termination of Next.                                                    *)
(***************************************************************************)

\* C24: every Next call on any of the three readers returns -- an event, stream
\* complete or an error -- for every finite body, undecodable lines, events and
\* array elements included: no call is left running.
C24_NextReturns == ret \in {"none", "event", "complete", "error"}

(***************************************************************************)
(* Manager.Wait returns.                                                   *)
(***************************************************************************)
TerminalStatuses == {"completed", "failed", "cancelled", "expired"}

\* No status fetch of a Wait call fails.
FetchesSucceed ==
    (last # Nil /\ last.op = "Wait") => last.err \in {NoError, "context_canceled"}

\* Wait has returned the job the provider reports, in a terminal status.
WaitReturnedTerminalJob ==
    /\ wait.pc = "returned"
    /\ last.err = NoError
    /\ last.job.Status = remote.Status
    /\ last.job.Status \in TerminalStatuses

\* C25: when status fetches never fail, the poll timer keeps firing and the provider
\* from some point on reports a terminal status, Wait eventually returns that job
\* (the caller not cancelling); and a Wait whose caller has cancelled eventually
\* returns.  Wait does not block forever in either case.
C25_WaitEventuallyReturns ==
    /\ ([]FetchesSucceed /\ [](waitCtx = "live") /\ <>[](remote.Status \in TerminalStatuses))
           => <>WaitReturnedTerminalJob
    /\ ([]FetchesSucceed /\ <>[](remote.Status \in TerminalStatuses))
           => <>(wait.pc = "returned")
    /\ [](wait.pc = "select" /\ waitCtx = "cancelled" => <>(wait.pc = "returned"))

C25_Witness ==
    /\ WaitReturnedTerminalJob
    /\ last.job.Status = "failed"
    /\ waitCtx = "live"

(***************************************************************************)
(* The order of the requests of the file-upload batch shape.               *)
(***************************************************************************)
UploadFailed(answer) ==
    ~answer.transport \/ answer.statusCode # 200 \/ ~answer.json

\* C26: CreateBatch of the file-upload shape sends the file upload first and the
\* batch-create request after it; the batch-create request carries exactly the file id
\* the upload returned; and when the upload fails no batch-create request is sent and
\* the upload's error is what CreateBatch returns.
C26_UploadBeforeCreate ==
    (applied # Nil /\ applied.fn = "CreateBatch") =>
        LET sent == applied.out.wire
            uploaded == applied.in.uploaded
        IN  /\ Len(sent) >= 1
            /\ sent[1].Path = "/files"
            /\ \A i \in 1..Len(sent) :
                 sent[i].Path = "/batches" =>
                    /\ i = 2
                    /\ ~UploadFailed(uploaded)
                    /\ sent[i].Payload.InputFileID = uploaded.id
            /\ IF UploadFailed(uploaded)
               THEN /\ Len(sent) = 1
                    /\ applied.out.job = Nil
                    /\ applied.out.err # Nil
                    /\ applied.out.err.Code =
                         (IF ~uploaded.transport THEN "provider_unavailable"
                          ELSE IF uploaded.statusCode = 200 \/ uploaded.errResp = Nil
                          THEN "server_error"
                          ELSE mapAPIErrorA(uploaded.errResp, uploaded.statusCode).Code)
               ELSE Len(sent) = 2 /\ sent[2].Path = "/batches"

C26_Witness ==
    /\ applied # Nil /\ applied.fn = "CreateBatch"
    /\ Len(applied.out.wire) = 2
    /\ applied.in.uploaded.id = "file-1"
    /\ applied.out.wire[2].Payload.InputFileID = "file-1"
    /\ applied.out.job # Nil
    /\ Len(applied.in.requests) = 2

(***************************************************************************)
(* The registries after construction.                                      *)
(***************************************************************************)

\* C27: once the router is built, no operation reachable from it -- Complete, Stream,
\* Provider, Providers, SupportsFeature, Models and every operation of the manager
\* Batch() returns -- writes the router's provider map, its policy or the manager's
\* provider map: every step leaves the three as they were.
C27_RegistryNeverWritten ==
    [][/\ providers' = providers
       /\ policy' = policy
       /\ managerProviders' = managerProviders]_vars

(***************************************************************************)
(* The stop reason a stream ends with.                                     *)
(***************************************************************************)
CanonicalStopReasons == {"end", "max_tokens", "tool_use", "stop_sequence", "content_filter"}

\* C28: for every reader and every transcript, the StopReason of the Done event and
\* of Response() is one of the five canonical values, also when the provider sent no
\* finish or stop reason before the stream ended.
C28_StopReasonCanonical ==
    /\ \A i \in 1..Len(events) :
         events[i].Type = "done" => events[i].StopReason \in CanonicalStopReasons
    /\ Response # Nil => Response.StopReason \in CanonicalStopReasons

(***************************************************************************)
(* The classification of a non-success response and its body.              *)
(***************************************************************************)

\* C29: for every provider and every non-success response the error's class follows
\* from the status code alone, whether or not the body decodes to the provider's error
\* object: a 401 gives an error that IsAuthError accepts and IsRetryable rejects, a
\* 429 gives rate_limit, and a body that does not decode is classified as some body
\* that decodes is.
C29_ClassifiedByStatusAlone ==
    (applied # Nil /\ applied.fn = "handleErrorResponse") =>
        LET p == applied.in.provider
            statusCode == applied.in.statusCode
            err == applied.out
        IN  /\ statusCode = 401 => (IsAuthError(err) /\ ~IsRetryable(err))
            /\ statusCode = 429 => err.Code = "rate_limit"
            /\ applied.in.errResp = Nil =>
                 \E m \in Messages :
                    handleErrorResponse(p, APIError(m), statusCode).Code = err.Code

(***************************************************************************)
(* stream and stream_options in the bodies sent to OpenAI.                 *)
(***************************************************************************)
StreamKeysConsistent(payload) ==
    "stream_options" \in DOMAIN payload =>
        ("stream" \in DOMAIN payload /\ payload["stream"] = "true")

NoStreamKeys(payload) ==
    "stream" \notin DOMAIN payload /\ "stream_options" \notin DOMAIN payload

\* C30: every request body sent to OpenAI carries stream_options only when its stream
\* flag is true; the body of the non-streaming Complete call and the body of every
\* batch input line carry neither stream=true nor stream_options, whatever the
\* caller's Stream field says.
C30_StreamOptionsOnlyWhenStreaming ==
    /\ (applied # Nil /\ applied.fn \in {"Complete", "Stream"}) =>
          \A i \in 1..Len(applied.out) : StreamKeysConsistent(applied.out[i].Payload)
    /\ (applied # Nil /\ applied.fn = "Complete") =>
          \A i \in 1..Len(applied.out) : NoStreamKeys(applied.out[i].Payload)
    /\ (applied # Nil /\ applied.fn = "CreateBatch") =>
          LET content == applied.out.wire[1].Payload
          IN  \A i \in 1..Len(content) : NoStreamKeys(content[i].Body)

====
